---- MODULE Spec2Model ----
(***************************************************************************)
(* Streaming ingestion, live state store and subscription loop of the      *)
(* soccerbet scraper: LiveStreamService (bulk snapshot, incremental        *)
(* subscription, reconnect timers, stop) and DataService (initialize,      *)
(* reset).  One action per handler / callback; the JavaScript event loop   *)
(* runs each handler to completion, so every action is one handler run     *)
(* together with the promise continuations it resumes.                     *)
(***************************************************************************)
EXTENDS Integers, Sequences, FiniteSets, TLC

\* ------------------------------------------------------------------ bounds
MaxCalls == 2       \* initialize() / startLiveSubscription() calls made by the callers
MaxFaults == 2      \* stream end / error / connect failures the provider produces
MaxAcc == 2         \* records accumulated by one bulk snapshot
MaxWire == 3        \* frames of one feed that are recorded

Ids == {1, 2}       \* record ids
Stamps == {0, 1}    \* sentinel watermarks

\* optional values (null / undefined is the empty sequence)
None == <<>>
Some(x) == <<x>>

\* ------------------------------------------------------------ record data
\* LiveHeader: id, s (sport), ls (live status); a payload record may carry
\* any subset of the fields next to its id.
SportCodes == {"S", "T"}
Statuses == {"x", "y"}
HeaderRecs ==
    {[id |-> i] : i \in Ids}
    \cup {[id |-> i, s |-> c] : i \in Ids, c \in SportCodes}
    \cup {[id |-> i, ls |-> l] : i \in Ids, l \in Statuses}
    \cup {[id |-> i, s |-> c, ls |-> l] : i \in Ids, c \in SportCodes, l \in Statuses}

\* LiveBet: id, mId (match id), st (status).
BetRecs ==
    {[id |-> i] : i \in Ids}
    \cup {[id |-> i, mId |-> m] : i \in Ids, m \in Ids}
    \cup {[id |-> i, st |-> l] : i \in Ids, l \in Statuses}
    \cup {[id |-> i, mId |-> m, st |-> l] : i \in Ids, m \in Ids, l \in Statuses}

\* { ...a, ...b }  (SpreadMergeDropsOld: the stored record replaced, not merged)
SpreadMergeDropsOld(a, b) == b
SpreadMerge(a, b) ==
    [f \in (DOMAIN a) \cup (DOMAIN b) |-> IF f \in DOMAIN b THEN b[f] ELSE a[f]]

\* list.findIndex(r => r.id === id); 0 stands for -1
FindIndex(list, id) ==
    IF \E i \in 1..Len(list) : list[i].id = id
    THEN CHOOSE i \in 1..Len(list) :
            /\ list[i].id = id
            /\ \A j \in 1..(i - 1) : list[j].id # id
    ELSE 0

\* one iteration of the loop of updateLiveHeaders / updateLiveBets
\* (UpdateOneAlwaysPush: the lookup by id left out; UpdateOneUnshift: a record
\* of an unknown id put at the head of the list)
UpdateOneAlwaysPush(list, rec) == Append(list, rec)
UpdateOneUnshift(list, rec) ==
    LET existingIndex == FindIndex(list, rec.id)
    IN  IF existingIndex > 0
        THEN [list EXCEPT ![existingIndex] = SpreadMerge(list[existingIndex], rec)]
        ELSE <<rec>> \o list
UpdateOne(list, rec) ==
    LET existingIndex == FindIndex(list, rec.id)
    IN  IF existingIndex > 0
        THEN [list EXCEPT ![existingIndex] = SpreadMerge(list[existingIndex], rec)]
        ELSE Append(list, rec)

\* the loop `for (const newHeader of newHeaders)` (UpdateLiveReversed: the
\* list walked from its end)
RECURSIVE UpdateLiveReversed(_, _)
UpdateLiveReversed(list, news) ==
    IF news = <<>> THEN list
    ELSE UpdateOne(UpdateLiveReversed(list, Tail(news)), Head(news))

RECURSIVE UpdateLive(_, _)
UpdateLive(list, news) ==
    IF news = <<>> THEN list
    ELSE UpdateLive(UpdateOne(list, Head(news)), Tail(news))


\* ------------------------------------------------------------------ frames
\* A frame of the bulk feed: a JSON payload (each of liveHeaders / liveBets
\* present or absent), the sentinel `END <n>`, or a line that is not JSON.
BulkHeaderRecs == {[id |-> 1, s |-> "S", ls |-> "x"], [id |-> 2, s |-> "T"], [id |-> 2, s |-> "S"]}
BulkBetRecs == {[id |-> 1, mId |-> 1, st |-> "x"]}
BulkFrames ==
    {[kind |-> "json", liveHeaders |-> h, liveBets |-> b] :
        h \in {None} \cup {Some(<<r>>) : r \in BulkHeaderRecs},
        b \in {None} \cup {Some(<<r>>) : r \in BulkBetRecs}}
    \cup {[kind |-> "end", ts |-> n] : n \in Stamps}
    \cup {[kind |-> "junk"]}

\* A frame of the incremental feed: a JSON payload or a line that is not JSON.
SubHeaderPatches ==
    {None,
     Some(<<[id |-> 1, ls |-> "y"]>>),
     Some(<<[id |-> 2, s |-> "S"]>>),
     Some(<<[id |-> 2, ls |-> "x"], [id |-> 2, ls |-> "y"]>>)}
SubBetPatches ==
    {None,
     Some(<<[id |-> 1, st |-> "y"]>>),
     Some(<<[id |-> 2, mId |-> 1], [id |-> 2, st |-> "x"]>>)}
SubFrames ==
    {[kind |-> "json", liveHeaders |-> h, liveBets |-> b] :
        h \in SubHeaderPatches, b \in SubBetPatches}
    \cup {[kind |-> "junk"]}

\* ----------------------------------------------------------------- catalog
\* BettingOptionsResponse: betPickGroupMap and betPickMap as the lists of
\* their entries (Object.entries order).  A group: key, id, sport,
\* orderNumber, tipTypes, description, name.  A pick: key
\* (`<outcome key>_<sport code>`, as the list of its parts), label, caption,
\* tipTypeCode, betCode.
GroupOne == [key |-> "1", id |-> 1, sport |-> "S", orderNumber |-> 1, tipTypes |-> {1},
             description |-> "D1", name |-> "N1"]
GroupTwo == [key |-> "2", id |-> 2, sport |-> "S", orderNumber |-> 2, tipTypes |-> {1, 2},
             description |-> "D2", name |-> "N2"]
GroupZero == [key |-> "0", id |-> 0, sport |-> "S", orderNumber |-> 0, tipTypes |-> {1},
              description |-> "D0", name |-> "N0"]
GroupOther == [key |-> "3", id |-> 3, sport |-> "T", orderNumber |-> 3, tipTypes |-> {1, 2},
               description |-> "D3", name |-> "N3"]
GroupLists ==
    {<<>>, <<GroupOne, GroupTwo>>, <<GroupTwo, GroupOne>>, <<GroupOther, GroupTwo>>,
     <<GroupZero, GroupTwo>>}

PickOf(key, sport, tip) ==
    [key |-> <<key, "_", sport>>, label |-> "L" \o key, caption |-> "C" \o key,
     tipTypeCode |-> tip, betCode |-> tip]
PickLists ==
    {<<PickOf("1", "S", 1), PickOf("2", "S", 2)>>,
     <<PickOf("1", "T", 2), PickOf("1", "S", 1), PickOf("2", "S", 2), PickOf("3", "S", 3)>>}

Catalogs == {[betPickGroupMap |-> g, betPickMap |-> p] : g \in GroupLists, p \in PickLists}

\* str.endsWith(suffix), on lists of parts
EndsWith(str, suffix) ==
    /\ Len(str) >= Len(suffix)
    /\ SubSeq(str, Len(str) - Len(suffix) + 1, Len(str)) = suffix

\* `${key}_${sportCode}`
BetPickKey(key, sportCode) == <<key, "_", sportCode>>

\* `x || null` of a number / of a string (null and undefined are None)
NumOrNull(x) == IF x = None \/ x = Some(0) THEN None ELSE x
StrOrNull(x) == IF x = None \/ x = Some("") THEN None ELSE x
\* `x || fallback` of a string
StrOr(x, fallback) == IF x = None \/ x = Some("") THEN fallback ELSE x[1]

\* list.find(pred) as the index of the first element satisfying it; 0 when
\* there is none
FindFirst(list, Pred(_)) ==
    IF \E i \in 1..Len(list) : Pred(list[i])
    THEN CHOOSE i \in 1..Len(list) :
            /\ Pred(list[i])
            /\ \A j \in 1..(i - 1) : ~Pred(list[j])
    ELSE 0

\* obj?.field of the element a find returned
FieldOf(list, i, field) == IF i = 0 THEN None ELSE Some(list[i][field])

\* DataService.createEnhancedBettingOptions, `code` being what
\* getSportTypeCode(sport) returns
CreateEnhancedBettingOptions(bettingOptions, code) ==
    IF code = None THEN [groups |-> <<>>, picks |-> <<>>]
    ELSE LET OfSport(groupInfo) == groupInfo.sport = code[1]
             enhancedGroups == SelectSeq(bettingOptions.betPickGroupMap, OfSport)
             KeyOfSport(pickInfo) == EndsWith(pickInfo.key, <<"_", code[1]>>)
             sportPicks == SelectSeq(bettingOptions.betPickMap, KeyOfSport)
             EnhancedPick(pickInfo) ==
                 LET Owns(g) == pickInfo.tipTypeCode \in g.tipTypes
                     group == FindFirst(enhancedGroups, Owns)
                 IN  [key |-> pickInfo.key,
                      label |-> pickInfo.label,
                      caption |-> pickInfo.caption,
                      tipTypeCode |-> pickInfo.tipTypeCode,
                      betCode |-> pickInfo.betCode,
                      groupId |-> NumOrNull(FieldOf(enhancedGroups, group, "id")),
                      groupDescription |-> StrOrNull(FieldOf(enhancedGroups, group, "description")),
                      groupName |-> StrOrNull(FieldOf(enhancedGroups, group, "name")),
                      groupOrderNumber |-> NumOrNull(FieldOf(enhancedGroups, group, "orderNumber"))]
         IN  [groups |-> enhancedGroups,
              picks |-> [i \in 1..Len(sportPicks) |-> EnhancedPick(sportPicks[i])]]

\* ------------------------------------------------------------------- state
VARIABLES
    isStreaming,        \* LiveStreamService.isStreaming
    shouldStream,       \* LiveStreamService.shouldStream
    currentTimestamp,   \* LiveStreamService.currentTimestamp (None = null)
    liveData,           \* LiveStreamService.liveData (None = null)
    abortController,    \* LiveStreamService.abortController: the request it was made for
    initializedData,    \* DataService.initializedData (None = null)
    isInitialized,      \* DataService.isInitialized
    sportTypeCode,      \* SportMappingService: code mapped for the selected sport
    conns,              \* requests in flight: bulk and subscription
    timers,             \* pending setTimeout callbacks: of the 'end' handler, and of the
                        \* 'error' handler after a transport error / after an abort
    init,               \* the position of the running DataService.initialize()
    calls,              \* initialize()/start() calls made so far
    faults,             \* provider-side stream ends / errors so far
    stopped,            \* history: stop() was called and start() not since
    resetDone,          \* history: reset() returned while no initialize() was running, and
                        \* neither initialize() nor start() was called since
    lastOp,             \* history: the handler that ran last, whether it opened a subscription
                        \* request, and how the call it settled (if any) ended
    obs,                \* history: the frames the provider sent on the bulk and on the
                        \* incremental feed, the store as the 'liveUpdate' listener of the
                        \* last patch saw it, the value a reader got from getLiveData(),
                        \* and whether reset() was called during an initialize()
    enr                 \* the catalog join: the betting options the catalog fetch
                        \* returned, the enhanced options built from them, the
                        \* scheduled data, and the last query with its result

vars == <<isStreaming, shouldStream, currentTimestamp, liveData, abortController,
          initializedData, isInitialized, sportTypeCode, conns, timers, init,
          calls, faults, stopped, resetDone, lastOp, obs, enr>>

svcVars == <<isStreaming, shouldStream, currentTimestamp, liveData, abortController>>
dsVars == <<initializedData, isInitialized, sportTypeCode>>

\* initialize() not running.  A running call has its position and the locals
\* of the bulk fetch; pre is history: what was committed when it was called.
IdleInit == [pc |-> "idle", headers |-> <<>>, bets |-> <<>>, endTimestamp |-> None,
             pre |-> None]

\* the handler `name` ran; it settled no call
Op(name, opened) == [op |-> name, opened |-> opened, settled |-> "none"]

\* the handler `name` ran and settled the call that waited for it: "resolved",
\* the name of the error it was rejected with, or "pending" when the handler
\* dropped the event and left the promise unsettled for good
Settles(name, outcome) == [op |-> name, opened |-> FALSE, settled |-> outcome]

NoEnr == [catalog |-> None, options |-> None, preGame |-> None, q |-> None]
NoObs == [bulk |-> <<>>, sub |-> <<>>, seen |-> None, got |-> None, pub |-> <<>>,
          reset |-> FALSE]

InitBut ==
    /\ isStreaming = FALSE
    /\ shouldStream = FALSE
    /\ currentTimestamp = None
    /\ liveData = None
    /\ abortController = None
    /\ initializedData = None
    /\ isInitialized = FALSE
    /\ sportTypeCode = None
    /\ conns = {}
    /\ timers = [end |-> 0, error |-> 0, abort |-> 0]
    /\ init = IdleInit
    /\ calls = 0
    /\ faults = 0
    /\ stopped = FALSE
    /\ resetDone = FALSE
    /\ lastOp = Op("none", FALSE)
    /\ obs = NoObs

Init == InitBut /\ enr = NoEnr

\* ------------------------------------------------------------ connections
\* new AbortController() + axios.get(url, {signal}): a request is identified
\* with its controller.  Ids of finished requests that nothing refers to are
\* used again.
UsedIds == {c.id : c \in conns} \cup {abortController[i] : i \in DOMAIN abortController}
NewId == CHOOSE i \in 1..(Cardinality(UsedIds) + 1) : i \notin UsedIds

Conn(id, kind, by) == [id |-> id, kind |-> kind, st |-> "connecting", by |-> by]

\* initialize() is suspended on this request
Awaited(c) == c.by = "init" /\ (c.kind = "bulk" \/ c.st = "connecting")

SubConns == {c \in conns : c.kind = "sub"}
OpenSubConns == {c \in SubConns : c.st = "open"}
TimersPending == timers.end + timers.error + timers.abort

\* `if (endTimestamp)`, `if (!this.currentTimestamp)`
Truthy(ts) == ts # None /\ ts # Some(0)

\* --------------------------------------------- LiveStreamService internals
\* subscribeToLiveUpdates(), up to its `await axios.get`: a new controller
\* replaces the stored one and a subscription request is made.
Subscribes(ts) == Truthy(ts)
SubscribeToLiveUpdates(ts, by, rest) ==
    IF ~Truthy(ts)
    THEN /\ abortController' = abortController
         /\ conns' = rest
    ELSE /\ abortController' = Some(NewId)
         /\ conns' = rest \cup {Conn(NewId, "sub", by)}

\* The request the stored controller belongs to, if it is still in flight.
AbortTarget ==
    {c \in conns : abortController # None /\ c.id = abortController[1]}

\* stopLiveSubscription().  abort() settles the aborted request before any
\* other handler runs: a pending axios.get rejects into the catch block of its
\* caller, an open stream gets an 'error' event whose name the HTTP library
\* chooses (errName): the handlers return on "AbortError" and treat any other
\* name as a transport error.
AbortNames == {"AbortError", "CanceledError"}
StopLiveSubscription(errName) ==
    /\ isStreaming' = FALSE
    /\ shouldStream' = FALSE
    /\ conns' = conns \ AbortTarget
    /\ abortController' = None
    /\ timers' = IF errName # "AbortError"
                    /\ \E c \in AbortTarget : c.kind = "sub" /\ c.st = "open"
                 THEN [timers EXCEPT !.abort = @ + 1]
                 ELSE timers
    /\ init' = IF \E c \in AbortTarget : Awaited(c) THEN IdleInit ELSE init

\* How abort() settles the call that waits for the aborted request.
\*  - bulk request pending: the catch block of initializeLiveEvents rethrows an
\*    AbortError as it is and wraps any other error in a new Error;
\*  - bulk stream open: the 'error' handler returns on AbortError without
\*    settling the promise, and rejects with any other error as it is;
\*  - subscription request pending: the catch block of subscribeToLiveUpdates
\*    returns on AbortError (startLiveSubscription() resolves) and rethrows
\*    any other error.
AbortSettles(errName) ==
    IF \E c \in AbortTarget : c.kind = "bulk" /\ c.st = "connecting"
    THEN IF errName = "AbortError" THEN "AbortError" ELSE "Error"
    ELSE IF \E c \in AbortTarget : c.kind = "bulk" /\ c.st = "open"
    THEN IF errName = "AbortError" THEN "pending" ELSE errName
    ELSE IF \E c \in AbortTarget : c.kind = "sub" /\ c.st = "connecting" /\ c.by # "timer"
    THEN IF errName = "AbortError" THEN "resolved" ELSE errName
    ELSE "none"

\* initialize() was waiting in startLiveSubscription() and goes on to commit
AbortCommits(errName) ==
    /\ errName = "AbortError"
    /\ \E c \in AbortTarget : c.kind = "sub" /\ Awaited(c)

\* the test `if (this.shouldStream)` of the backoff timer of the 'end' handler
\* (with the variants: the test left out, the test inverted)
RestartAlways == TRUE
RestartNever == FALSE
EndShouldRestart == shouldStream

\* the test `if (this.shouldStream)` of the backoff timer of the 'error' handler
ErrorShouldRestart == shouldStream

\* SportMappingService.filterLiveHeadersBySport (FilterKeepsUntagged: a
\* header without a sport code kept as well)
FilterKeepsUntagged(headers, code) ==
    IF code = None THEN <<>>
    ELSE LET Keep(h) == "s" \notin DOMAIN h \/ h.s = code[1]
         IN  SelectSeq(headers, Keep)
FilterLiveHeadersBySport(headers, code) ==
    IF code = None THEN <<>>
    ELSE LET Keep(h) == "s" \in DOMAIN h /\ h.s = code[1]
         IN  SelectSeq(headers, Keep)

\* ------------------------------------------------- DataService.initialize
\* the committed state: of the orchestrator, the sport mapping, the live store
\* and the watermark
Committed ==
    [initializedData |-> initializedData, isInitialized |-> isInitialized,
     sportTypeCode |-> sportTypeCode, liveData |-> liveData,
     currentTimestamp |-> currentTimestamp]

\* With `keep` the call records what was committed when it was made.
InitializeCall(limit, keep) ==
    /\ init.pc = "idle"
    /\ calls < limit
    /\ calls' = calls + 1
    /\ init' = [IdleInit EXCEPT !.pc = "catalog",
                                !.pre = IF keep THEN Some(Committed) ELSE None]
    /\ resetDone' = FALSE
    /\ lastOp' = Op("initialize", FALSE)
    /\ UNCHANGED <<svcVars, dsVars, conns, timers, faults, stopped, obs, enr>>

\* soccerbetApi.initializeData() resolved: the sport mapping is rebuilt and
\* initializeLiveEvents() makes the bulk request.
CatalogLoaded(codes, catalogs) ==
    /\ init.pc = "catalog"
    /\ \E code \in codes, bettingOptions \in catalogs :
        /\ sportTypeCode' = code
        /\ enr' = [enr EXCEPT
                     !.catalog = bettingOptions,
                     !.options = IF bettingOptions = None THEN None
                                 ELSE Some(CreateEnhancedBettingOptions(bettingOptions[1],
                                                                        code))]
    /\ abortController' = Some(NewId)
    /\ conns' = conns \cup {Conn(NewId, "bulk", "init")}
    /\ init' = [init EXCEPT !.pc = "bulkConnect"]
    /\ lastOp' = Op("catalogLoaded", FALSE)
    /\ UNCHANGED <<isStreaming, shouldStream, currentTimestamp, liveData,
                   initializedData, isInitialized, timers, calls, faults,
                   stopped, resetDone, obs>>

\* soccerbetApi.initializeData() rejected: initialize() rethrows.
CatalogFailed ==
    /\ init.pc = "catalog"
    /\ init' = IdleInit
    /\ lastOp' = Settles("catalogFailed", "Error")
    /\ UNCHANGED <<svcVars, dsVars, conns, timers, calls, faults, stopped, resetDone, obs, enr>>

\* ---------------------------------- LiveStreamService.initializeLiveEvents
BulkConnected ==
    \E c \in conns :
        /\ c.kind = "bulk" /\ c.st = "connecting"
        /\ conns' = (conns \ {c}) \cup {[c EXCEPT !.st = "open"]}
        /\ init' = [init EXCEPT !.pc = "bulkStream"]
        /\ lastOp' = Op("bulkConnected", FALSE)
        /\ UNCHANGED <<svcVars, dsVars, timers, calls, faults, stopped, resetDone, obs, enr>>

\* axios.get of the bulk request rejected (transport error, timeout): the
\* catch block throws a new Error.
BulkConnectFailed ==
    \E c \in conns :
        /\ c.kind = "bulk" /\ c.st = "connecting"
        /\ conns' = conns \ {c}
        /\ init' = IdleInit
        /\ lastOp' = Settles("bulkConnectFailed", "Error")
        /\ UNCHANGED <<svcVars, dsVars, timers, calls, faults, stopped, resetDone, obs, enr>>

\* processLiveStreamData: push every record of the payload
ProcessLiveStreamData(acc, field) == IF field = None THEN acc ELSE acc \o field[1]

\* catch (error) { } of the frame loops: a line JSON.parse rejects is skipped
\* and what the stream delivered so far is kept (CatchDiscards: it is dropped)
CatchDiscards(kept, empty) == empty
Catch(kept, empty) == kept

\* response.data.on('data') of the bulk stream, one frame.  With `log` the
\* frame is recorded.
BulkData(frames, log) ==
    \E c \in conns, f \in frames :
        /\ c.kind = "bulk" /\ c.st = "open"
        /\ log => Len(obs.bulk) < MaxWire
        /\ obs' = IF log THEN [obs EXCEPT !.bulk = Append(@, f)] ELSE obs
        /\ UNCHANGED enr
        /\ \/ /\ f.kind = "junk"
              /\ init' = [init EXCEPT !.headers = Catch(@, <<>>), !.bets = Catch(@, <<>>)]
           \/ /\ f.kind = "end"
              /\ init' = [init EXCEPT !.endTimestamp = Some(f.ts)]
           \/ /\ f.kind = "json"
              /\ Len(init.headers) + Len(init.bets) < MaxAcc
              /\ init' = [init EXCEPT
                            !.headers = ProcessLiveStreamData(@, f.liveHeaders),
                            !.bets = ProcessLiveStreamData(@, f.liveBets)]
        /\ lastOp' = Op("bulkData", FALSE)
        /\ UNCHANGED <<svcVars, dsVars, conns, timers, calls, faults, stopped, resetDone>>

\* response.data.on('end') of the bulk stream.  With a sentinel seen the
\* promise resolves and initialize() goes on: it filters the headers of the
\* stored snapshot and calls startLiveSubscription().
BulkEnd ==
    \E c \in conns :
        /\ c.kind = "bulk" /\ c.st = "open"
        /\ UNCHANGED <<timers, calls, faults, resetDone, sportTypeCode, obs, enr>>
        /\ IF Truthy(init.endTimestamp)
           THEN /\ currentTimestamp' = init.endTimestamp
                /\ liveData' = Some([headers |-> FilterLiveHeadersBySport(init.headers, sportTypeCode),
                                     bets |-> init.bets,
                                     lastTimestamp |-> init.endTimestamp[1]])
                /\ stopped' = FALSE
                /\ IF isStreaming
                   THEN /\ conns' = conns \ {c}
                        /\ init' = IdleInit
                        /\ initializedData' = Some([mode |-> "live"])
                        /\ isInitialized' = TRUE
                        /\ lastOp' = Settles("bulkEnd", "resolved")
                        /\ UNCHANGED <<isStreaming, shouldStream, abortController>>
                   ELSE /\ isStreaming' = TRUE
                        /\ shouldStream' = TRUE
                        /\ SubscribeToLiveUpdates(init.endTimestamp, "init", conns \ {c})
                        /\ init' = [IdleInit EXCEPT !.pc = "subConnect", !.pre = init.pre]
                        /\ lastOp' = Op("bulkEnd", Subscribes(init.endTimestamp))
                        /\ UNCHANGED <<initializedData, isInitialized>>
           ELSE /\ conns' = conns \ {c}
                /\ init' = IdleInit
                /\ lastOp' = Settles("bulkEndNoSentinel", "Error")
                /\ UNCHANGED <<svcVars, initializedData, isInitialized, stopped>>

\* response.data.on('error') of the bulk stream, not an abort: reject.
\* (BulkErrorClears: the handler dropping the stored snapshot and watermark)
BulkErrorClears ==
    \E c \in conns :
        /\ c.kind = "bulk" /\ c.st = "open"
        /\ conns' = conns \ {c}
        /\ init' = IdleInit
        /\ liveData' = None
        /\ currentTimestamp' = None
        /\ lastOp' = Settles("bulkError", "Error")
        /\ UNCHANGED <<isStreaming, shouldStream, abortController, dsVars, timers,
                       calls, faults, stopped, resetDone, obs, enr>>

BulkError ==
    \E c \in conns :
        /\ c.kind = "bulk" /\ c.st = "open"
        /\ conns' = conns \ {c}
        /\ init' = IdleInit
        /\ lastOp' = Settles("bulkError", "Error")
        /\ UNCHANGED <<svcVars, dsVars, timers, calls, faults, stopped, resetDone, obs, enr>>


\* -------------------------------- LiveStreamService.subscribeToLiveUpdates
\* axios.get of a subscription request resolved: the handlers are attached.
\* A startLiveSubscription() awaited by initialize() returns, and initialize()
\* commits its result.
SubConnected ==
    \E c \in SubConns :
        /\ c.st = "connecting"
        /\ conns' = (conns \ {c}) \cup {[c EXCEPT !.st = "open"]}
        /\ IF Awaited(c)
           THEN /\ initializedData' = Some([mode |-> "live"])
                /\ isInitialized' = TRUE
                /\ init' = IdleInit
           ELSE UNCHANGED <<initializedData, isInitialized, init>>
        /\ lastOp' = IF c.by = "timer" THEN Op("subConnected", FALSE)
                     ELSE Settles("subConnected", "resolved")
        /\ UNCHANGED <<svcVars, sportTypeCode, timers, calls, faults, stopped, resetDone, obs, enr>>

\* axios.get of a subscription request rejected with a transport error: the
\* catch block clears isStreaming and rethrows.
SubConnectFailed ==
    \E c \in SubConns :
        /\ c.st = "connecting"
        /\ faults < MaxFaults
        /\ faults' = faults + 1
        /\ conns' = conns \ {c}
        /\ isStreaming' = FALSE
        /\ init' = IF Awaited(c) THEN IdleInit ELSE init
        /\ lastOp' = IF c.by = "timer" THEN Op("reconnectFailed", FALSE)
                     ELSE Settles("connectFailed", "Error")
        /\ UNCHANGED <<shouldStream, currentTimestamp, liveData, abortController,
                       dsVars, timers, calls, stopped, resetDone, obs, enr>>

\* processLiveUpdateData: merge the payload into the stored snapshot
ProcessLiveUpdateData(data, f) ==
    IF data = None THEN None
    ELSE Some([data[1] EXCEPT
                !.headers = IF f.liveHeaders = None THEN @ ELSE UpdateLive(@, f.liveHeaders[1]),
                !.bets = IF f.liveBets = None THEN @ ELSE UpdateLive(@, f.liveBets[1])])

\* The store as a 'liveUpdate' listener reads it: this.emit() runs the
\* listeners before processLiveUpdateData touches the store
\* (EmitViewAfterHeaders: the emit placed between the two updates).
EmitViewAfterHeaders(data, f) ==
    IF data = None \/ f.liveHeaders = None THEN data
    ELSE Some([data[1] EXCEPT !.headers = UpdateLive(@, f.liveHeaders[1])])
EmitView(data, f) == data

\* the LiveSubscriptionData built from a parsed frame (the timestamp left out)
UpdateData(f) ==
    [headers |-> IF f.liveHeaders = None THEN <<>> ELSE f.liveHeaders[1],
     bets |-> IF f.liveBets = None THEN <<>> ELSE f.liveBets[1]]

\* this.emit('liveUpdate', updateData): the events the listeners were handed
\* (EmitTwice: a second emit after the store update).
EmitTwice(events, f) == events \o <<UpdateData(f), UpdateData(f)>>
Emit(events, f) == Append(events, UpdateData(f))

\* response.data.on('data') of a subscription stream, one line.  With `log`
\* the frame and what the listener saw are recorded.
SubData(frames, log) ==
    \E c \in OpenSubConns, f \in frames :
        /\ log => Len(obs.sub) < MaxWire
        /\ obs' = IF log
                  THEN [obs EXCEPT !.sub = Append(@, f),
                                   !.seen = IF f.kind = "json" THEN EmitView(liveData, f) ELSE @,
                                   !.pub = IF f.kind = "json" THEN Emit(@, f) ELSE @]
                  ELSE obs
        /\ UNCHANGED enr
        /\ liveData' = IF f.kind = "json" THEN ProcessLiveUpdateData(liveData, f)
                       ELSE Catch(liveData, None)
        /\ lastOp' = Op("subData", FALSE)
        /\ UNCHANGED <<isStreaming, shouldStream, currentTimestamp, abortController,
                       dsVars, conns, timers, init, calls, faults, stopped, resetDone>>

\* response.data.on('end') of a subscription stream
SubEnd ==
    \E c \in OpenSubConns :
        /\ faults < MaxFaults
        /\ faults' = faults + 1
        /\ conns' = conns \ {c}
        /\ isStreaming' = FALSE
        /\ timers' = [timers EXCEPT !.end = @ + 1]
        /\ lastOp' = Op("subEnd", FALSE)
        /\ UNCHANGED <<shouldStream, currentTimestamp, liveData, abortController,
                       dsVars, init, calls, stopped, resetDone, obs, enr>>

\* response.data.on('error') of a subscription stream, not an abort
SubError ==
    \E c \in OpenSubConns :
        /\ faults < MaxFaults
        /\ faults' = faults + 1
        /\ conns' = conns \ {c}
        /\ isStreaming' = FALSE
        /\ timers' = [timers EXCEPT !.error = @ + 1]
        /\ lastOp' = Op("subError", FALSE)
        /\ UNCHANGED <<shouldStream, currentTimestamp, liveData, abortController,
                       dsVars, init, calls, stopped, resetDone, obs, enr>>

\* the setTimeout callback of the 'end' handler (1000 ms)
EndTimerFires ==
    /\ timers.end > 0
    /\ timers' = [timers EXCEPT !.end = @ - 1]
    /\ IF EndShouldRestart
       THEN /\ isStreaming' = TRUE
            /\ SubscribeToLiveUpdates(currentTimestamp, "timer", conns)
            /\ lastOp' = Op("endTimer", Subscribes(currentTimestamp))
       ELSE /\ lastOp' = Op("endTimer", FALSE)
            /\ UNCHANGED <<isStreaming, abortController, conns>>
    /\ UNCHANGED <<shouldStream, currentTimestamp, liveData, dsVars, init,
                   calls, faults, stopped, resetDone, obs, enr>>

\* the setTimeout callback of the 'error' handler (5000 ms), set after a
\* transport error (kind "error") or after an abort reported under another
\* name than AbortError (kind "abort")
ErrorTimerFires ==
    \E kind \in {"error", "abort"} :
        /\ timers[kind] > 0
        /\ timers' = [timers EXCEPT ![kind] = @ - 1]
        /\ IF ErrorShouldRestart
           THEN /\ SubscribeToLiveUpdates(currentTimestamp, "timer", conns)
                /\ lastOp' = Op(kind \o "Timer", Subscribes(currentTimestamp))
           ELSE /\ lastOp' = Op(kind \o "Timer", FALSE)
                /\ UNCHANGED <<abortController, conns>>
        /\ UNCHANGED <<isStreaming, shouldStream, currentTimestamp, liveData, dsVars,
                       init, calls, faults, stopped, resetDone, obs, enr>>

\* the test `if (!this.currentTimestamp)` of startLiveSubscription()
\* (StartNeverRefused: the test left out)
StartNeverRefused == FALSE
StartRefused == ~Truthy(currentTimestamp)

\* startLiveSubscription() called directly on the service
StartLiveSubscription ==
    /\ calls < MaxCalls
    /\ calls' = calls + 1
    /\ stopped' = FALSE
    /\ resetDone' = FALSE
    /\ IF StartRefused
       THEN /\ lastOp' = Settles("startNoTimestamp", "Error")
            /\ UNCHANGED <<isStreaming, shouldStream, abortController, conns>>
       ELSE IF isStreaming
       THEN /\ lastOp' = Settles("startAlreadyRunning", "resolved")
            /\ UNCHANGED <<isStreaming, shouldStream, abortController, conns>>
       ELSE /\ isStreaming' = TRUE
            /\ shouldStream' = TRUE
            /\ SubscribeToLiveUpdates(currentTimestamp, "api", conns)
            /\ lastOp' = Op("start", Subscribes(currentTimestamp))
    /\ UNCHANGED <<currentTimestamp, liveData, dsVars, timers, init, faults, obs, enr>>

\* stopLiveSubscription() called directly on the service.  An initialize()
\* that waited for the aborted subscription request goes on and commits.
Stop ==
    \E errName \in AbortNames :
        /\ StopLiveSubscription(errName)
        /\ stopped' = TRUE
        /\ lastOp' = Settles("stop", AbortSettles(errName))
        /\ initializedData' = IF AbortCommits(errName) THEN Some([mode |-> "live"])
                              ELSE initializedData
        /\ isInitialized' = IF AbortCommits(errName) THEN TRUE ELSE isInitialized
        /\ UNCHANGED <<currentTimestamp, liveData, sportTypeCode, calls, faults,
                       resetDone, obs, enr>>

\* LiveStreamService.getLiveData(), called by a reader that keeps what it got
GetLiveData ==
    /\ liveData # None
    /\ obs.got = None
    /\ obs' = [obs EXCEPT !.got = liveData]
    /\ UNCHANGED enr
    /\ lastOp' = Op("getLiveData", FALSE)
    /\ UNCHANGED <<svcVars, dsVars, conns, timers, init, calls, faults, stopped, resetDone>>

\* ------------------------------------------------------ DataService.reset
\* the test `if (this.liveStreamService.isCurrentlyStreaming())`
ResetStops == isStreaming

\* reset() clears the committed data after the stop; an initialize() that
\* waited for the aborted subscription request goes on after reset() has
\* returned, and commits.  With `log` a call made while initialize() is
\* suspended is recorded.
Reset(log) ==
    \E errName \in AbortNames :
        /\ IF ResetStops
           THEN /\ StopLiveSubscription(errName)
                /\ stopped' = TRUE
                /\ lastOp' = Settles("resetStop", AbortSettles(errName))
                /\ initializedData' = IF AbortCommits(errName) THEN Some([mode |-> "live"])
                                      ELSE None
                /\ isInitialized' = AbortCommits(errName)
           ELSE /\ lastOp' = Op("reset", FALSE)
                /\ initializedData' = None
                /\ isInitialized' = FALSE
                /\ UNCHANGED <<isStreaming, shouldStream, abortController, conns,
                               timers, init, stopped>>
        /\ resetDone' = (init.pc = "idle")
        /\ obs' = IF log /\ init.pc # "idle" THEN [obs EXCEPT !.reset = TRUE] ELSE obs
        /\ UNCHANGED <<currentTimestamp, liveData, sportTypeCode, calls, faults, enr>>

\* ------------------------------------------------------ enrichment queries
\* The outcome of a call: it returned a value or threw.
Threw == [threw |-> TRUE]
Returned(v) == [threw |-> FALSE, value |-> v]

\* r.field (undefined is None)
Field(r, f) == IF f \in DOMAIN r THEN Some(r[f]) ELSE None

\* liveData.bets.filter(bet => bet.mId === matchId)
MatchBets(bets, matchId) ==
    LET OfMatch(bet) == Field(bet, "mId") = Some(matchId)
    IN  SelectSeq(bets, OfMatch)

\* enhancedOptions.picks.find(pick => pick.key === betPickKey), as an index
FindPick(picks, betPickKey) ==
    LET HasKey(pick) == pick.key = betPickKey
    IN  FindFirst(picks, HasKey)

\* one element of the `matchBets.map(bet => ...)` of
\* getEnhancedBettingDataForMatchWithGroups
EnhancedBetWithGroups(bet, sportCode, picks) ==
    LET EnhancedOdd(odd) ==
            LET enhancedPick == FindPick(picks, BetPickKey(odd.key, sportCode))
            IN  [key |-> odd.key,
                 odds |-> odd.ov,
                 description |-> StrOr(FieldOf(picks, enhancedPick, "label"),
                                       "Unknown Description"),
                 caption |-> StrOr(FieldOf(picks, enhancedPick, "caption"), "N/A")]
        firstEnhancedPick ==
            IF bet.om = <<>> THEN 0
            ELSE FindPick(picks, BetPickKey(bet.om[1].key, sportCode))
        GroupField(f) ==
            IF firstEnhancedPick = 0 THEN None ELSE picks[firstEnhancedPick][f]
    IN  SpreadMerge(bet,
            [sportCode |-> sportCode,
             odds |-> [k \in 1..Len(bet.om) |-> EnhancedOdd(bet.om[k])],
             groupId |-> NumOrNull(GroupField("groupId")),
             groupDescription |-> StrOrNull(GroupField("groupDescription")),
             groupName |-> StrOrNull(GroupField("groupName")),
             groupOrderNumber |-> NumOrNull(GroupField("groupOrderNumber"))])

\* DataService.getEnhancedBettingDataForMatchWithGroups(matchId)
GetEnhancedBettingDataForMatchWithGroups(matchId) ==
    IF initializedData = None \/ liveData = None \/ enr.options = None THEN Returned(<<>>)
    ELSE LET matchBets == MatchBets(liveData[1].bets, matchId)
             HasId(h) == h.id = matchId
             matchHeader == FindFirst(liveData[1].headers, HasId)
             sportCode == IF matchHeader = 0 THEN None
                          ELSE Field(liveData[1].headers[matchHeader], "s")
         IN  IF matchBets = <<>> THEN Returned(<<>>)
             ELSE IF sportCode = None THEN Returned(<<>>)
             ELSE IF \E i \in 1..Len(matchBets) : "om" \notin DOMAIN matchBets[i]
                  THEN Threw
             ELSE Returned([i \in 1..Len(matchBets) |->
                        EnhancedBetWithGroups(matchBets[i], sportCode[1],
                                              enr.options[1].picks)])

\* SportMappingService.enhanceBetData
EnhanceBetData(bet, sportCode, bettingOptions) ==
    LET OddInfo(odd) ==
            LET betPickInfo == FindPick(bettingOptions[1].betPickMap,
                                        BetPickKey(odd.key, sportCode))
                \* betCode.toString() is ToString of the TLC module
                groupKey == IF betPickInfo = 0 THEN ""
                            ELSE ToString(bettingOptions[1].betPickMap[betPickInfo].betCode)
                HasGroupKey(g) == g.key = groupKey
                groupInfo == FindFirst(bettingOptions[1].betPickGroupMap, HasGroupKey)
                groups == bettingOptions[1].betPickGroupMap
            IN  [key |-> odd.key,
                 odds |-> odd.ov,
                 description |-> IF betPickInfo # 0
                                 THEN bettingOptions[1].betPickMap[betPickInfo].label
                                 ELSE "Unknown bet",
                 caption |-> IF betPickInfo # 0
                             THEN bettingOptions[1].betPickMap[betPickInfo].caption
                             ELSE odd.key,
                 groupId |-> NumOrNull(FieldOf(groups, groupInfo, "id")),
                 groupDescription |-> StrOrNull(FieldOf(groups, groupInfo, "description")),
                 groupName |-> StrOrNull(FieldOf(groups, groupInfo, "name"))]
    IN  [id |-> bet.id,
         matchId |-> Field(bet, "mId"),
         matchCode |-> Field(bet, "mc"),
         sportCode |-> sportCode,
         odds |-> IF "om" \in DOMAIN bet /\ bettingOptions # None
                  THEN [k \in 1..Len(bet.om) |-> OddInfo(bet.om[k])]
                  ELSE <<>>]

\* SportMappingService.getSportCodeFromMatchCode
GetSportCodeFromMatchCode(matchCode, liveHeaders) ==
    LET HasCode(h) == Field(h, "mc") = matchCode
        header == FindFirst(liveHeaders, HasCode)
    IN  IF header = 0 THEN None ELSE Field(liveHeaders[header], "s")

\* DataService.getEnhancedBettingDataForMatch(matchId), with
\* SportMappingService.getEnhancedBettingDataForMatch
GetEnhancedBettingDataForMatch(matchId) ==
    IF liveData = None THEN Returned(<<>>)
    ELSE LET matchBets == MatchBets(liveData[1].bets, matchId)
             sportCode == GetSportCodeFromMatchCode(
                              IF matchBets = <<>> THEN None ELSE Field(matchBets[1], "mc"),
                              liveData[1].headers)
         IN  IF sportCode = None THEN Returned(<<>>)
             ELSE Returned([i \in 1..Len(matchBets) |->
                        EnhanceBetData(matchBets[i], sportCode[1], enr.catalog)])

\* DataService.getFilteredLiveHeadersBySport()
GetFilteredLiveHeadersBySport ==
    IF initializedData = None \/ liveData = None THEN Returned(<<>>)
    ELSE Returned(FilterLiveHeadersBySport(liveData[1].headers, sportTypeCode))

\* What a query leaves in the store: it only reads it (QueryStoresFiltered:
\* the filtered list written back, as initialize() does with the snapshot).
QueryStoresFiltered(data, out) ==
    IF data = None \/ out.threw THEN data
    ELSE Some([data[1] EXCEPT !.headers = out.value])
QueryKeeps(data, out) == data

\* a call of a query entry point, recorded with its result
Query(op, arg, out) ==
    /\ enr' = [enr EXCEPT !.q = Some([op |-> op, arg |-> arg, out |-> out])]
    /\ lastOp' = Op(op, FALSE)
    /\ UNCHANGED <<isStreaming, shouldStream, currentTimestamp, abortController, dsVars,
                   conns, timers, init, calls, faults, stopped, resetDone, obs>>

EnhancedForMatchWithGroups(matchIds) ==
    \E matchId \in matchIds :
        /\ Query("withGroups", matchId, GetEnhancedBettingDataForMatchWithGroups(matchId))
        /\ UNCHANGED liveData

EnhancedForMatch(matchIds) ==
    \E matchId \in matchIds :
        /\ Query("forMatch", matchId, GetEnhancedBettingDataForMatch(matchId))
        /\ UNCHANGED liveData

FilteredLiveHeaders ==
    /\ Query("filteredHeaders", 0, GetFilteredLiveHeadersBySport)
    /\ liveData' = QueryKeeps(liveData, GetFilteredLiveHeadersBySport)

\* ------------------------------------------------------------ specification
\* The subscription loop under every interleaving of calls, stream events and
\* timers, with a small feed.
LoopCodes == {Some("S")}
LoopBulkFrames ==
    {[kind |-> "end", ts |-> 1], [kind |-> "junk"]}
LoopSubFrames ==
    {[kind |-> "json", liveHeaders |-> Some(<<[id |-> 1, ls |-> "y"]>>), liveBets |-> None],
     [kind |-> "junk"]}

Next ==
    \/ InitializeCall(MaxCalls, FALSE)
    \/ CatalogLoaded(LoopCodes, {None})
    \/ CatalogFailed
    \/ BulkConnected
    \/ BulkConnectFailed
    \/ BulkData(LoopBulkFrames, FALSE)
    \/ BulkEnd
    \/ BulkError
    \/ SubConnected
    \/ SubConnectFailed
    \/ SubData(LoopSubFrames, FALSE)
    \/ SubEnd
    \/ SubError
    \/ EndTimerFires
    \/ ErrorTimerFires
    \/ StartLiveSubscription
    \/ Stop
    \/ Reset(FALSE)

Spec == Init /\ [][Next]_vars

\* The event loop runs every timer callback that is due.
FairSpec == Spec /\ WF_vars(EndTimerFires) /\ WF_vars(ErrorTimerFires)

\* One live session without transport faults, with the full feed.
StoreCodes == {None, Some("S")}

StoreNext ==
    \/ InitializeCall(1, FALSE)
    \/ CatalogLoaded(StoreCodes, {None})
    \/ BulkConnected
    \/ BulkData(BulkFrames, FALSE)
    \/ BulkEnd
    \/ SubConnected
    \/ SubData(SubFrames, FALSE)

StoreSpec == Init /\ [][StoreNext]_vars

\* One live session whose frames are recorded, and a reader.
FeedBulkFrames ==
    {[kind |-> "json", liveHeaders |-> Some(<<[id |-> 1, s |-> "S", ls |-> "x"]>>),
      liveBets |-> Some(<<[id |-> 1, mId |-> 1, st |-> "x"]>>)],
     [kind |-> "end", ts |-> 1],
     [kind |-> "junk"]}
FeedSubFrames ==
    {[kind |-> "json", liveHeaders |-> Some(<<[id |-> 2, ls |-> "x"], [id |-> 2, ls |-> "y"]>>),
      liveBets |-> Some(<<[id |-> 1, st |-> "y"]>>)],
     [kind |-> "json", liveHeaders |-> Some(<<[id |-> 2, s |-> "S", ls |-> "x"]>>),
      liveBets |-> None],
     [kind |-> "junk"]}

FeedNext ==
    \/ InitializeCall(1, FALSE)
    \/ CatalogLoaded(LoopCodes, {None})
    \/ BulkConnected
    \/ BulkData(FeedBulkFrames, TRUE)
    \/ BulkEnd
    \/ SubConnected
    \/ SubData(FeedSubFrames, TRUE)
    \/ GetLiveData

FeedSpec == Init /\ [][FeedNext]_vars

\* Calls of initialize() one after the other, each step of which may fail.
InitNext ==
    \/ InitializeCall(MaxCalls, TRUE)
    \/ CatalogLoaded(StoreCodes, {None})
    \/ CatalogFailed
    \/ BulkConnected
    \/ BulkConnectFailed
    \/ BulkData(LoopBulkFrames, FALSE)
    \/ BulkEnd
    \/ BulkError
    \/ SubConnected
    \/ SubConnectFailed
    \/ SubData(LoopSubFrames, FALSE)

InitSpec == Init /\ [][InitNext]_vars

TypeOK ==
    /\ isStreaming \in BOOLEAN
    /\ shouldStream \in BOOLEAN
    /\ timers.end \in Nat /\ timers.error \in Nat /\ timers.abort \in Nat
    /\ init.pc \in {"idle", "catalog", "bulkConnect", "bulkStream", "subConnect", "preGame"}
    /\ calls \in 0..MaxCalls
    /\ faults \in 0..MaxFaults


\* ------------------------------------------------------------------ claims
\* C1  No restart after stop: while stopLiveSubscription() has been called and
\* startLiveSubscription() not again, no handler (in particular no backoff
\* timer that was pending) opens a subscription request.
C1_NoRestartAfterStop == stopped => ~lastOp.opened

\* a backoff timer that was pending at stop() has fired and declined
C1_Witness ==
    /\ stopped
    /\ lastOp \in {Op("endTimer", FALSE), Op("errorTimer", FALSE), Op("abortTimer", FALSE)}

\* C2  After reset() has returned, and until initialize() is called again, no
\* subscription request is opened, whatever state the loop was in.
C2_ResetTerminatesLoop == resetDone => ~lastOp.opened

\* C3  At most one subscription request is open or being opened at any time.
C3_SingleSubscription == Cardinality(SubConns) <= 1

\* C4  After stopLiveSubscription() has returned no subscription connection
\* remains open.
C4_StopAbortsOpenConnection ==
    lastOp.op \in {"stop", "resetStop"} => OpenSubConns = {}

C6_ReconnectOnStreamFailure ==
    /\ [](lastOp.op = "errorTimer" /\ ~stopped => lastOp.opened)
    /\ ((timers.error > 0) ~> (lastOp.op = "errorTimer"))

\* the 'error' timer has fired and reconnected
C6_Witness == lastOp = Op("errorTimer", TRUE) /\ ~stopped /\ Cardinality(SubConns) = 1

\* C7  When a reconnect attempt made by a backoff timer fails to connect and
\* stop() has not been called, another backoff is scheduled.
C7_ConnectFailureRetried ==
    lastOp.op = "reconnectFailed" /\ ~stopped => TimersPending > 0


\* Patches the store claims quantify over: every list of at most two records.
PatchesOver(S) == {<<>>} \cup {<<r>> : r \in S} \cup {<<r, q>> : r \in S, q \in S}

\* `old` -> `new` by `patch`: every stored record named in the patch carries,
\* field by field, the value of the last patch record of its id that has the
\* field, and its previous value where no patch record of its id has the field.
PartialUpdatePreserved(old, new, patch) ==
    \A k \in 1..Len(patch) :
        (\E i \in 1..Len(old) : old[i].id = patch[k].id) =>
        \E i \in 1..Len(old) :
            /\ old[i].id = patch[k].id
            /\ Len(new) >= Len(old)
            /\ \A f \in DOMAIN patch[k] :
                (\A m \in (k + 1)..Len(patch) :
                    patch[m].id = patch[k].id => f \notin DOMAIN patch[m])
                => f \in DOMAIN new[i] /\ new[i][f] = patch[k][f]
            /\ \A f \in DOMAIN old[i] :
                (\A m \in 1..Len(patch) :
                    patch[m].id = patch[k].id => f \notin DOMAIN patch[m])
                => f \in DOMAIN new[i] /\ new[i][f] = old[i][f]

\* C8  Partial-update preservation: after a header or odds patch, a stored
\* record whose id the patch names has the patch's value for every field the
\* patch record carries and its previous value for every other field.
C8_PartialUpdatePreservation ==
    liveData # None =>
        /\ \A p \in PatchesOver(HeaderRecs) :
            PartialUpdatePreserved(liveData[1].headers, UpdateLive(liveData[1].headers, p), p)
        /\ \A p \in PatchesOver(BetRecs) :
            PartialUpdatePreserved(liveData[1].bets, UpdateLive(liveData[1].bets, p), p)

\* a patch carrying only `ls` was merged into a stored header: `s` is kept
C8_Witness ==
    /\ lastOp.op = "subData"
    /\ liveData # None
    /\ \E i \in 1..Len(liveData[1].headers) :
        liveData[1].headers[i] = [id |-> 1, s |-> "S", ls |-> "y"]

\* C9  Merge idempotence: applying a patch twice in a row leaves the store as
\* applying it once, for every patch, also one repeating an id.
C9_MergeIdempotence ==
    liveData # None =>
        /\ \A p \in PatchesOver(HeaderRecs) :
            UpdateLive(UpdateLive(liveData[1].headers, p), p) = UpdateLive(liveData[1].headers, p)
        /\ \A p \in PatchesOver(BetRecs) :
            UpdateLive(UpdateLive(liveData[1].bets, p), p) = UpdateLive(liveData[1].bets, p)
        /\ \A f \in SubFrames : f.kind = "json" =>
            ProcessLiveUpdateData(ProcessLiveUpdateData(liveData, f), f)
                = ProcessLiveUpdateData(liveData, f)

\* the store after a patch that repeats an id, which a second application of
\* the same patch leaves as it is
C9_Witness ==
    /\ lastOp.op = "subData"
    /\ liveData # None
    /\ \E i \in 1..Len(liveData[1].headers) : liveData[1].headers[i].id = 2
    /\ LET p == <<[id |-> 2, ls |-> "x"], [id |-> 2, ls |-> "y"]>>
       IN  /\ UpdateLive(liveData[1].headers, p) = liveData[1].headers
           /\ UpdateLive(<<>>, p) # p

\* C10  Unique identity: the headers hold no two records with the same id,
\* and neither do the bets.
UniqueIds(list) ==
    \A i, j \in 1..Len(list) : i # j => list[i].id # list[j].id

C10_UniqueIdentity ==
    liveData # None => UniqueIds(liveData[1].headers) /\ UniqueIds(liveData[1].bets)

\* -------------------------------------------------- claims about the feeds
\* the records of `field` that the JSON frames of a feed carry, in wire order
RECURSIVE RecordsOf(_, _)
RecordsOf(frames, field) ==
    IF frames = <<>> THEN <<>>
    ELSE (IF Head(frames).kind = "json" /\ Head(frames)[field] # None
          THEN Head(frames)[field][1] ELSE <<>>)
         \o RecordsOf(Tail(frames), field)

\* the sequential shallow merge by id of `recs` into `list`
RECURSIVE MergeInOrder(_, _)
MergeInOrder(list, recs) ==
    IF recs = <<>> THEN list
    ELSE MergeInOrder(UpdateOne(list, Head(recs)), Tail(recs))

\* the two JSON frames of the recorded incremental feed
FrameA ==
    [kind |-> "json", liveHeaders |-> Some(<<[id |-> 2, ls |-> "x"], [id |-> 2, ls |-> "y"]>>),
     liveBets |-> Some(<<[id |-> 1, st |-> "y"]>>)]
FrameB ==
    [kind |-> "json", liveHeaders |-> Some(<<[id |-> 2, s |-> "S", ls |-> "x"]>>),
     liveBets |-> None]

\* C11  Patch ordering: the store after n frames of the incremental feed is
\* the snapshot with the records of frames 1..n merged by id one after the
\* other in the order of the wire, nothing reordered and nothing coalesced.
C11_PatchOrdering ==
    liveData # None =>
        /\ liveData[1].headers =
              MergeInOrder(FilterLiveHeadersBySport(RecordsOf(obs.bulk, "liveHeaders"),
                                                    sportTypeCode),
                           RecordsOf(obs.sub, "liveHeaders"))
        /\ liveData[1].bets =
              MergeInOrder(RecordsOf(obs.bulk, "liveBets"), RecordsOf(obs.sub, "liveBets"))

\* two frames whose patches of header 2 do not commute were received, A then
\* B: the status is B's, the last one on the wire
C11_Witness ==
    /\ obs.sub = <<FrameA, FrameB>>
    /\ liveData # None
    /\ liveData[1].headers = <<[id |-> 2, s |-> "S", ls |-> "x"]>>

\* a patch applied as a whole: its header part and its odds part
WholePatch(data, f) ==
    Some([data[1] EXCEPT
            !.headers = MergeInOrder(@, RecordsOf(<<f>>, "liveHeaders")),
            !.bets = MergeInOrder(@, RecordsOf(<<f>>, "liveBets"))])

ReturnedNow == liveData

\* C13  Point-in-time reads: the value getLiveData() returned is not changed
\* by patches applied after it was returned.
C13_PointInTimeReads == obs.got # None => ReturnedNow = obs.got

\* C14  Snapshot completeness: a bulk stream that ends after a sentinel
\* `END <n>` resolves with a snapshot whose lastTimestamp is n, and the stored
\* watermark is n.
C14_SnapshotCompleteness ==
    [][\A n \in Stamps :
        (init.pc = "bulkStream" /\ init.endTimestamp = Some(n)
            /\ lastOp'.op \in {"bulkEnd", "bulkEndNoSentinel"})
        => /\ lastOp'.settled # "Error"
           /\ currentTimestamp' = Some(n)
           /\ liveData' # None
           /\ liveData'[1].lastTimestamp = n]_vars

\* C15  Incomplete snapshot: a bulk stream that ends, or fails, before any
\* sentinel was seen makes initializeLiveEvents fail with an error, and leaves
\* the stored live data and the stored watermark as they were.
C15_IncompleteSnapshot ==
    [][(init.pc = "bulkStream" /\ init.endTimestamp = None
            /\ lastOp'.op \in {"bulkEndNoSentinel", "bulkError"})
        => /\ lastOp'.settled = "Error"
           /\ liveData' = liveData
           /\ currentTimestamp' = currentTimestamp]_vars

\* a second bulk fetch ended without a sentinel: the snapshot and the watermark
\* of the first are still stored
C15_Witness ==
    /\ lastOp = Settles("bulkEndNoSentinel", "Error")
    /\ liveData # None
    /\ currentTimestamp = Some(1)

\* the frames of a feed up to its first sentinel
RECURSIVE UpToSentinel(_)
UpToSentinel(frames) ==
    IF frames = <<>> \/ Head(frames).kind = "end" THEN <<>>
    ELSE <<Head(frames)>> \o UpToSentinel(Tail(frames))

\* C16  Termination on sentinel: once the sentinel has been seen the bulk
\* connection is closed, and the snapshot holds no record of a frame that
\* arrived after the sentinel.
C16_TerminationOnSentinel ==
    /\ (init.pc = "bulkStream" /\ init.endTimestamp # None)
        => ~\E c \in conns : c.kind = "bulk" /\ c.st = "open"
    /\ liveData # None /\ obs.sub = <<>>
        => liveData[1].bets = RecordsOf(UpToSentinel(obs.bulk), "liveBets")

\* C17  Aborted bulk fetch: a stop that aborts the bulk request initialize()
\* waits for, pending or streaming, rejects the call with an error that names
\* the abort.
C17_AbortedBulkFetch ==
    [][((\E c \in AbortTarget : c.kind = "bulk" /\ Awaited(c))
            /\ lastOp'.op \in {"stop", "resetStop"})
        => lastOp'.settled \in {"AbortError", "CanceledError"}]_vars

\* the frames of a feed that parse: JSON and sentinel
WellFormed(frames) ==
    LET Parses(f) == f.kind # "junk"
    IN  SelectSeq(frames, Parses)

\* the value of the last sentinel of a feed
RECURSIVE LastSentinel(_)
LastSentinel(frames) ==
    IF frames = <<>> THEN None
    ELSE IF frames[Len(frames)].kind = "end" THEN Some(frames[Len(frames)].ts)
    ELSE LastSentinel(SubSeq(frames, 1, Len(frames) - 1))

\* C18  Tolerant parsing: a frame that does not parse contributes nothing and
\* raises no error: what a feed has delivered is what its well-formed frames,
\* before and after, deliver, and the stream stays open.
C18_TolerantParsing ==
    /\ init.pc = "bulkStream" =>
        /\ init.headers = RecordsOf(WellFormed(obs.bulk), "liveHeaders")
        /\ init.bets = RecordsOf(WellFormed(obs.bulk), "liveBets")
        /\ init.endTimestamp = LastSentinel(WellFormed(obs.bulk))
    /\ obs.sub # <<>> =>
        /\ liveData # None
        /\ liveData[1].bets =
              MergeInOrder(RecordsOf(WellFormed(obs.bulk), "liveBets"),
                           RecordsOf(WellFormed(obs.sub), "liveBets"))
        /\ liveData[1].headers =
              MergeInOrder(FilterLiveHeadersBySport(
                              RecordsOf(WellFormed(obs.bulk), "liveHeaders"), sportTypeCode),
                           RecordsOf(WellFormed(obs.sub), "liveHeaders"))
    /\ lastOp.op = "bulkData" =>
        lastOp.settled = "none" /\ \E c \in conns : c.kind = "bulk" /\ c.st = "open"
    /\ lastOp.op = "subData" =>
        lastOp.settled = "none" /\ OpenSubConns # {}

\* both feeds carried a line that does not parse between well-formed frames:
\* the frames before and after it are in the store
C18_Witness ==
    /\ obs.bulk = <<[kind |-> "json",
                     liveHeaders |-> Some(<<[id |-> 1, s |-> "S", ls |-> "x"]>>),
                     liveBets |-> Some(<<[id |-> 1, mId |-> 1, st |-> "x"]>>)],
                    [kind |-> "junk"], [kind |-> "end", ts |-> 1]>>
    /\ obs.sub = <<FrameB, [kind |-> "junk"], FrameA>>
    /\ liveData # None
    /\ liveData[1].lastTimestamp = 1
    /\ liveData[1].headers = <<[id |-> 1, s |-> "S", ls |-> "x"], [id |-> 2, s |-> "S", ls |-> "y"]>>
    /\ liveData[1].bets = <<[id |-> 1, mId |-> 1, st |-> "y"]>>

\* C19  start() requires a watermark: while no bulk fetch has completed there
\* is no subscription request and the flags are unset, and a
\* startLiveSubscription() called then fails with an error and opens nothing.
C19_StartRequiresWatermark ==
    /\ currentTimestamp = None => SubConns = {} /\ ~isStreaming /\ ~shouldStream
    /\ lastOp.op = "startNoTimestamp" =>
        lastOp.settled = "Error" /\ ~lastOp.opened /\ currentTimestamp = None

\* startLiveSubscription() was called with no watermark and threw
C19_Witness ==
    /\ lastOp = Settles("startNoTimestamp", "Error")
    /\ currentTimestamp = None
    /\ calls > 0

\* C20  Failed initialization commits nothing: when a step of initialize()
\* fails, the committed state of the orchestrator, the sport mapping, the live
\* store and the watermark are what they were when initialize() was called.
C20_FailedInitCommitsNothing ==
    [][(init.pc # "idle"
            /\ lastOp'.op \in {"catalogFailed", "bulkConnectFailed", "bulkEndNoSentinel",
                               "bulkError", "connectFailed"}
            /\ lastOp'.settled = "Error")
        => init.pre # None /\ Committed' = init.pre[1]]_vars

\* C21: after DataService.reset() has returned, no live state remains: the
\* store (headers, odds) and the watermark are absent and getInitializedData()
\* is null, so every query entry point has nothing to answer from.
C21_ResetDiscardsLiveState ==
    lastOp.op \in {"reset", "resetStop"} =>
        /\ liveData = None
        /\ currentTimestamp = None
        /\ initializedData = None

\* The orchestrator states of DataService: Uninitialized is the state reset()
\* leaves (no initialize() in flight, nothing committed).
Uninitialized == init.pc = "idle" /\ initializedData = None /\ ~isInitialized

\* C22: reset() called while the orchestrator is already Uninitialized
\* changes no state of the orchestrator, of the stream service or of its
\* requests and timers.
C22_ResetIdempotent ==
    [][(Uninitialized /\ lastOp'.op \in {"reset", "resetStop"}) =>
           UNCHANGED <<svcVars, dsVars, conns, timers>>]_vars

\* the events owed to a received feed: one per JSON frame, in wire order,
\* each carrying the frame's header records and odds records
RECURSIVE EventsOwed(_)
EventsOwed(frames) ==
    IF frames = <<>> THEN <<>>
    ELSE (IF Head(frames).kind = "json"
          THEN <<[headers |-> RecordsOf(<<Head(frames)>>, "liveHeaders"),
                  bets |-> RecordsOf(<<Head(frames)>>, "liveBets")]>>
          ELSE <<>>)
         \o EventsOwed(Tail(frames))

EnrichCatalogs ==
    {Some([betPickGroupMap |-> g, betPickMap |-> <<PickOf("1", "S", 1), PickOf("2", "S", 2)>>]) :
        g \in {<<GroupOne, GroupTwo>>, <<GroupZero, GroupTwo>>}}
EnrichBulkFrames ==
    {[kind |-> "json",
      liveHeaders |-> Some(<<[id |-> 1, s |-> "S", mc |-> 1, ls |-> "x"]>>),
      liveBets |-> Some(<<[id |-> 1, mId |-> 1, mc |-> 1,
                           om |-> <<[key |-> "1", ov |-> 1], [key |-> "9", ov |-> 2]>>]>>)],
     [kind |-> "json",
      liveHeaders |-> Some(<<[id |-> 2, s |-> "T", mc |-> 2]>>),
      liveBets |-> Some(<<[id |-> 2, mId |-> 2, mc |-> 2, om |-> <<[key |-> "2", ov |-> 1]>>]>>)],
     [kind |-> "end", ts |-> 1]}
EnrichSubFrames ==
    {[kind |-> "json",
      liveHeaders |-> Some(<<[id |-> 2, s |-> "S"]>>),
      liveBets |-> Some(<<[id |-> 3, mId |-> 3, om |-> <<[key |-> "1", ov |-> 2]>>]>>)],
     [kind |-> "json",
      liveHeaders |-> Some(<<[id |-> 3, s |-> "T", mc |-> 3], [id |-> 1, ls |-> "y"]>>),
      liveBets |-> None]}
MatchIds == {1, 2, 3}

EnrichNext ==
    \/ InitializeCall(1, FALSE)
    \/ CatalogLoaded(StoreCodes, EnrichCatalogs)
    \/ BulkConnected
    \/ BulkData(EnrichBulkFrames, FALSE)
    \/ BulkEnd
    \/ SubConnected
    \/ SubData(EnrichSubFrames, FALSE)
    \/ EnhancedForMatchWithGroups(MatchIds)
    \/ EnhancedForMatch(MatchIds)
    \/ FilteredLiveHeaders

EnrichSpec == Init /\ [][EnrichNext]_vars

\* the result of the last call, when that call is the handler that ran last
LastQuery(ops) == enr.q # None /\ enr.q[1].op \in ops /\ lastOp.op = enr.q[1].op

\* the dictionary entries for an outcome key of a quote of sport `sportCode`
DictEntries(key, sportCode) ==
    {i \in 1..Len(enr.catalog[1].betPickMap) :
        enr.catalog[1].betPickMap[i].key = <<key, "_", sportCode>>}

\* C24: a live enrichment call does not throw, and in each record it returns
\* an outcome whose pick key has no entry in the pick dictionary carries the
\* description "Unknown Description" and the caption "N/A", while an outcome
\* whose pick key has an entry carries that entry's label and caption.
C24_GracefulDegradation ==
    LastQuery({"withGroups", "forMatch"}) =>
        /\ ~enr.q[1].out.threw
        /\ \A i \in 1..Len(enr.q[1].out.value) :
            LET rec == enr.q[1].out.value[i]
            IN  \A k \in 1..Len(rec.odds) :
                    LET entries == DictEntries(rec.odds[k].key, rec.sportCode)
                    IN  IF entries = {}
                        THEN /\ rec.odds[k].description = "Unknown Description"
                             /\ rec.odds[k].caption = "N/A"
                        ELSE \E e \in entries :
                             /\ rec.odds[k].description = enr.catalog[1].betPickMap[e].label
                             /\ rec.odds[k].caption = enr.catalog[1].betPickMap[e].caption

\* the store has no header of match `m` that carries a sport code, or no
\* quote of match `m`
NothingToEnrich(m) ==
    \/ liveData = None
    \/ ~\E i \in 1..Len(liveData[1].headers) :
            liveData[1].headers[i].id = m /\ "s" \in DOMAIN liveData[1].headers[i]
    \/ ~\E i \in 1..Len(liveData[1].bets) :
            "mId" \in DOMAIN liveData[1].bets[i] /\ liveData[1].bets[i].mId = m

\* C25: live enrichment of a match id whose header is missing from the store
\* or carries no sport code, or for which the store holds no quote, returns
\* the empty list and does not throw.
C25_EmptyWhenNotEnrichable ==
    (LastQuery({"withGroups", "forMatch"}) /\ NothingToEnrich(enr.q[1].arg)) =>
        /\ ~enr.q[1].out.threw
        /\ enr.q[1].out.value = <<>>

\* ----------------------------------------------------- special-value strings
\* A special-value string is the list of its parts: keys, values, "=", ","
\* and " ".
MaxParams == 2      \* parameters of one special-value string

SvParams ==
    {<<k, "=", v>> : k \in {"total", "hcp", "handicap"}, v \in {"1", "2"}}
    \cup {<<" ", "total", " ", "=", " ", "2">>,
          <<"total", "=">>, <<"total">>, <<"=", "1">>, <<"total", "=", "1", "=", "2">>, <<>>}

\* the strings of n comma-separated parameters
RECURSIVE SvOfParams(_)
SvOfParams(n) ==
    IF n = 1 THEN SvParams
    ELSE {s \o <<",">> \o p : s \in SvOfParams(n - 1), p \in SvParams}

SvStrings == UNION {SvOfParams(n) : n \in 1..MaxParams}

\* str.split(sep): the parts between the separators (one empty part for the
\* empty string)
RECURSIVE Split(_, _)
Split(str, sep) ==
    IF \E i \in 1..Len(str) : str[i] = sep
    THEN LET i == CHOOSE i \in 1..Len(str) :
                    str[i] = sep /\ \A j \in 1..(i - 1) : str[j] # sep
         IN  <<SubSeq(str, 1, i - 1)>> \o Split(SubSeq(str, i + 1, Len(str)), sep)
    ELSE <<str>>

\* str.trim()
RECURSIVE Trim(_)
Trim(str) ==
    IF str # <<>> /\ Head(str) = " " THEN Trim(Tail(str))
    ELSE IF str # <<>> /\ str[Len(str)] = " " THEN Trim(SubSeq(str, 1, Len(str) - 1))
    ELSE str

\* the loop filling svParams: the value stored under `name` after the
\* parameters were walked in order (None: nothing stored)
RECURSIVE SvParamOf(_, _, _)
SvParamOf(params, name, stored) ==
    IF params = <<>> THEN stored
    ELSE LET parts == Split(Head(params), "=")
             key == parts[1]
             value == IF Len(parts) >= 2 THEN Some(parts[2]) ELSE None
         IN  SvParamOf(Tail(params), name,
                       IF key # <<>> /\ value # None /\ Trim(key) = name
                       THEN Some(Trim(value[1])) ELSE stored)

\* DataService.extractSpecialValues(svField); svField None is a missing sv
ExtractSpecialValues(svField) ==
    IF svField = None \/ svField = Some(<<>>) THEN [total |-> None, handicap |-> None]
    ELSE LET params == Split(svField[1], ",")
             OrNull(x) == IF x = None \/ x = Some(<<>>) THEN None ELSE x
         IN  [total |-> OrNull(SvParamOf(params, <<"total">>, None)),
              handicap |-> OrNull(SvParamOf(params, <<"hcp">>, None))]

\* a call of the parser on the special-value string handed in
ExtractSpecialValuesCall ==
    /\ enr.q # None
    /\ enr.q[1].op = "svField"
    /\ Query("extractSpecialValues", enr.q[1].arg,
             Returned(ExtractSpecialValues(enr.q[1].arg)))
    /\ UNCHANGED liveData

\* The parser applied to a special-value string of the bound (or to a
\* missing one).
SvFields == {None} \cup {Some(s) : s \in SvStrings}

ParseInit ==
    /\ InitBut
    /\ \E svField \in SvFields :
        enr = [NoEnr EXCEPT !.q = Some([op |-> "svField", arg |-> svField,
                                        out |-> Returned(<<>>)])]

ParseNext == ExtractSpecialValuesCall

ParseSpec == ParseInit /\ [][ParseNext]_vars

\* the values a special-value string gives for `name`: those of its
\* parameters of the form name=value (for a parameter with a second "=",
\* the text up to it as well as the whole rest)
ValuesFor(svField, name) ==
    IF svField = None THEN {}
    ELSE LET params == Split(svField[1], ",")
             named == {j \in 1..Len(params) :
                        /\ Len(Split(params[j], "=")) >= 2
                        /\ Trim(Split(params[j], "=")[1]) = name}
             Rest(param) == SubSeq(param, Len(Split(param, "=")[1]) + 2, Len(param))
         IN  {Trim(Rest(params[i])) : i \in named}
             \cup {Trim(Split(params[i], "=")[2]) : i \in named}

\* what the claim allows the parser to return for `name`: the value of a
\* parameter of that name; null when no parameter has the name or one has
\* it with an empty value
Allowed(svField, name) ==
    LET values == ValuesFor(svField, name)
    IN  {Some(v) : v \in values \ {<<>>}}
        \cup (IF values = {} \/ <<>> \in values THEN {None} ELSE {})

\* C28: for every special-value string the parser does not throw and returns
\* as total the value of the parameter `total` and as handicap the value of
\* the parameter `handicap` of the comma-separated key=value list, null for
\* a component whose parameter is absent or empty.
C28_SpecialValueParsing ==
    LastQuery({"extractSpecialValues"}) =>
        /\ ~enr.q[1].out.threw
        /\ enr.q[1].out.value.total \in Allowed(enr.q[1].arg, <<"total">>)
        /\ enr.q[1].out.value.handicap \in Allowed(enr.q[1].arg, <<"handicap">>)

\* ---------------------------------------------------- scheduled enrichment
MaxPicks == 2       \* raw picks of one scheduled match

\* A raw pick of a scheduled match's nested bet map: the bet-type key it is
\* filed under and its special-value string.
RawPicks ==
    {[betKey |-> "1", sv |-> Some(<<"total", "=", "1">>)],
     [betKey |-> "1", sv |-> Some(<<"total", "=", "1", ",", "hcp", "=", "1">>)],
     [betKey |-> "1", sv |-> None],
     [betKey |-> "2", sv |-> Some(<<"total", "=", "1">>)],
     [betKey |-> "2", sv |-> Some(<<"total", "=", "1", ",", "hcp", "=", "2">>)],
     [betKey |-> "2", sv |-> Some(<<"total", "=", "1", ",", "handicap", "=", "1">>)],
     [betKey |-> "2", sv |-> Some(<<"total", "=", "1", ",", "handicap", "=", "2">>)],
     [betKey |-> "9", sv |-> Some(<<"total", "=", "1">>)]}

\* Object.entries walks the bet-type keys in ascending order and, under one
\* key, each special value once
KeyRank(betKey) == CASE betKey = "1" -> 1 [] betKey = "2" -> 2 [] betKey = "9" -> 9
RECURSIVE BetMapsOf(_)
BetMapsOf(n) ==
    IF n = 0 THEN {<<>>}
    ELSE {Append(m, r) : m \in BetMapsOf(n - 1), r \in RawPicks}
BetMaps ==
    {m \in UNION {BetMapsOf(n) : n \in 0..MaxPicks} :
        /\ \A i, j \in 1..Len(m) : i < j => KeyRank(m[i].betKey) <= KeyRank(m[j].betKey)
        /\ \A i, j \in 1..Len(m) : i # j => m[i] # m[j]}

\* a scheduled match of the selected sport; the odds value and the pick code
\* of a raw pick are its position in the walk
MatchOf(id, sport, m) ==
    [id |-> id, sport |-> sport,
     betMap |-> [i \in 1..Len(m) |->
                    [betKey |-> m[i].betKey, sv |-> m[i].sv, ov |-> i, bpc |-> i]]]
OtherMatch == MatchOf(2, "T", <<[betKey |-> "1", sv |-> None]>>)
Schedules ==
    {<<MatchOf(1, "S", m)>> : m \in BetMaps}
    \cup {<<OtherMatch, MatchOf(1, "S", m)>> : m \in {b \in BetMaps : Len(b) = 1}}

\* PreGameApiService.getSportCode: the mapped code, or the fallback map
\* entry of the selected sport
PreGameSportCode == IF sportTypeCode = None THEN "S" ELSE sportTypeCode[1]

\* the outcome entry built for a raw pick
PreGameOdd(bet, picks, enhancedPick) ==
    [key |-> bet.betKey,
     odds |-> bet.ov,
     description |-> StrOr(FieldOf(picks, enhancedPick, "label"), "Unknown Description"),
     caption |-> StrOr(FieldOf(picks, enhancedPick, "caption"), "N/A")]

\* the grouping key of a raw pick, as the list of the parts of the string
GroupKey(bet, picks, enhancedPick) ==
    LET specialValues == ExtractSpecialValues(bet.sv)
        groupId == NumOrNull(IF enhancedPick = 0 THEN None ELSE picks[enhancedPick].groupId)
    IN  (IF groupId = None THEN <<"ungrouped">> ELSE <<ToString(groupId[1])>>)
        \o <<"_">>
        \o (IF specialValues.total = None THEN <<"no-total">> ELSE specialValues.total[1])
        \o <<"_">>
        \o (IF specialValues.handicap = None THEN <<"no-handicap">>
            ELSE specialValues.handicap[1])

\* `existingBet.odds.push(...)`: a raw pick whose grouping key is in the Map
\* (AddToExistingReseeds: the record built anew from that pick;
\* AddToExistingDrops: the pick left out)
AddToExistingReseeds(existingBet, newBet, odd) ==
    [newBet EXCEPT !.odds = Append(existingBet.odds, odd)]
AddToExistingDrops(existingBet, newBet, odd) == existingBet
AddToExisting(existingBet, newBet, odd) ==
    [existingBet EXCEPT !.odds = Append(@, odd)]

\* the loop of DataService.enhancePreGameBets over the raw picks, `grouped`
\* being the entries of the Map groupedBets in insertion order
RECURSIVE GroupBets(_, _, _, _, _)
GroupBets(raw, matchId, picks, sportCode, grouped) ==
    IF raw = <<>> THEN grouped
    ELSE LET bet == Head(raw)
             enhancedPick == FindPick(picks, BetPickKey(bet.betKey, sportCode))
             groupKey == GroupKey(bet, picks, enhancedPick)
             HasKey(e) == e.groupKey = groupKey
             existing == FindFirst(grouped, HasKey)
             PickField(f) == IF enhancedPick = 0 THEN None ELSE picks[enhancedPick][f]
             newBet ==
                 \* betCode, tipType and status are copied like betPickCode
                 [id |-> <<ToString(matchId), "_">> \o groupKey,
                  betPickCode |-> bet.bpc,
                  specialValue |-> bet.sv,
                  description |-> StrOr(FieldOf(picks, enhancedPick, "label"),
                                        "Unknown Description"),
                  caption |-> StrOr(FieldOf(picks, enhancedPick, "caption"), "N/A"),
                  groupId |-> NumOrNull(PickField("groupId")),
                  groupDescription |-> StrOrNull(PickField("groupDescription")),
                  groupName |-> StrOrNull(PickField("groupName")),
                  groupOrderNumber |-> NumOrNull(PickField("groupOrderNumber")),
                  odds |-> <<PreGameOdd(bet, picks, enhancedPick)>>]
         IN  GroupBets(Tail(raw), matchId, picks, sportCode,
                 IF existing # 0
                 THEN [grouped EXCEPT ![existing].bet =
                          AddToExisting(@, newBet, PreGameOdd(bet, picks, enhancedPick))]
                 ELSE Append(grouped, [groupKey |-> groupKey, bet |-> newBet]))

\* DataService.enhancePreGameBets
EnhancePreGameBets(match, picks, sportCode) ==
    LET grouped == GroupBets(match.betMap, match.id, picks, sportCode, <<>>)
    IN  [i \in 1..Len(grouped) |-> grouped[i].bet]

\* DataService.getEnhancedPreGameMatches()
GetEnhancedPreGameMatches ==
    IF initializedData = None \/ enr.preGame = None \/ initializedData[1].mode # "pre-game"
    THEN Returned(<<>>)
    ELSE LET sportCode == PreGameSportCode
             OfSport(match) == match.sport = sportCode
             matches == SelectSeq(enr.preGame[1].esMatches, OfSport)
         IN  Returned([i \in 1..Len(matches) |->
                 SpreadMerge(matches[i],
                     [bets |-> EnhancePreGameBets(matches[i], enr.options[1].picks,
                                                  sportCode)])])

\* initialize('pre-game', sport), after `await initializeData()`: the sport
\* mappings, the enhanced options, then the request for the scheduled data
PreGameCatalogLoaded(codes, catalogs) ==
    /\ init.pc = "catalog"
    /\ \E code \in codes, bettingOptions \in catalogs :
        /\ sportTypeCode' = code
        /\ enr' = [enr EXCEPT
                     !.catalog = Some(bettingOptions),
                     !.options = Some(CreateEnhancedBettingOptions(bettingOptions, code))]
    /\ init' = [init EXCEPT !.pc = "preGame"]
    /\ lastOp' = Op("catalogLoaded", FALSE)
    /\ UNCHANGED <<svcVars, initializedData, isInitialized, conns, timers, calls, faults,
                   stopped, resetDone, obs>>

\* initialize('pre-game', sport), after `await fetchPreGameData(sportCode)`:
\* the call commits and returns
PreGameLoaded(schedules) ==
    /\ init.pc = "preGame"
    /\ \E esMatches \in schedules :
        enr' = [enr EXCEPT !.preGame = Some([esMatches |-> esMatches])]
    /\ initializedData' = Some([mode |-> "pre-game"])
    /\ isInitialized' = TRUE
    /\ init' = IdleInit
    /\ lastOp' = Settles("preGameLoaded", "resolved")
    /\ UNCHANGED <<svcVars, sportTypeCode, conns, timers, calls, faults, stopped,
                   resetDone, obs>>

EnhancedPreGameMatches ==
    /\ Query("preGameMatches", 0, GetEnhancedPreGameMatches)
    /\ UNCHANGED liveData

\* One initialize('pre-game') with a catalog and a schedule of the bounds,
\* and a caller of the scheduled enrichment.
ScheduledNext ==
    \/ InitializeCall(1, FALSE)
    \/ PreGameCatalogLoaded(StoreCodes, Catalogs)
    \/ PreGameLoaded(Schedules)
    \/ EnhancedPreGameMatches

ScheduledSpec == Init /\ [][ScheduledNext]_vars

\* the groups of the catalog that are of sport `code` and list the tip-type
\* code `tip`, as positions in catalog order
OwnersOf(tip, code) ==
    {i \in 1..Len(enr.catalog[1].betPickGroupMap) :
        /\ enr.catalog[1].betPickGroupMap[i].sport = code
        /\ tip \in enr.catalog[1].betPickGroupMap[i].tipTypes}

\* the first of them
FirstOwner(tip, code) ==
    CHOOSE i \in OwnersOf(tip, code) : \A j \in OwnersOf(tip, code) : i <= j

\* C26: every enhanced pick of the selected sport carries the id,
\* description, name and order number of the first group of that sport, in
\* catalog order, whose tip-type list contains the pick's tip-type code,
\* whatever these values are (0 included), and null in all four only when no
\* group owns the pick.
C26_GroupOwnership ==
    (enr.options # None /\ sportTypeCode # None) =>
        \A k \in 1..Len(enr.options[1].picks) :
            LET pick == enr.options[1].picks[k]
                owners == OwnersOf(pick.tipTypeCode, sportTypeCode[1])
            IN  IF owners = {}
                THEN /\ pick.groupId = None
                     /\ pick.groupDescription = None
                     /\ pick.groupName = None
                     /\ pick.groupOrderNumber = None
                ELSE LET group == enr.catalog[1].betPickGroupMap[
                                      FirstOwner(pick.tipTypeCode, sportTypeCode[1])]
                     IN  /\ pick.groupId = Some(group.id)
                         /\ pick.groupDescription = Some(group.description)
                         /\ pick.groupName = Some(group.name)
                         /\ pick.groupOrderNumber = Some(group.orderNumber)

\* the (groupId, total, handicap) triple of a raw pick: the id of the group
\* owning its dictionary entry (none: no entry or no owner), and the values
\* its special-value string gives for total and for handicap (none: the
\* empty set)
TripleOf(bet) ==
    LET entries == DictEntries(bet.betKey, PreGameSportCode)
        tip == enr.catalog[1].betPickMap[CHOOSE e \in entries : TRUE].tipTypeCode
    IN  <<IF sportTypeCode = None \/ entries = {} \/ OwnersOf(tip, PreGameSportCode) = {}
          THEN None
          ELSE Some(enr.catalog[1].betPickGroupMap[FirstOwner(tip, PreGameSportCode)].id),
          ValuesFor(bet.sv, <<"total">>),
          ValuesFor(bet.sv, <<"handicap">>)>>

\* the enriched records of `bets` holding the outcome entry of raw pick `bet`
RecordsWith(bets, bet) ==
    {r \in 1..Len(bets) :
        \E o \in 1..Len(bets[r].odds) :
            bets[r].odds[o].key = bet.betKey /\ bets[r].odds[o].odds = bet.ov}

\* C27: in the enriched records of one scheduled match, two raw picks are
\* outcome entries of the same record exactly when their (groupId, total,
\* handicap) triples are equal.
C27_GroupingCollapse ==
    LastQuery({"preGameMatches"}) =>
        \A m \in 1..Len(enr.q[1].out.value) :
            LET match == enr.q[1].out.value[m]
            IN  \A i, j \in 1..Len(match.betMap) :
                    (RecordsWith(match.bets, match.betMap[i])
                        \cap RecordsWith(match.bets, match.betMap[j]) # {})
                    <=> (TripleOf(match.betMap[i]) = TripleOf(match.betMap[j]))

\* One initialize(), of a live or of a scheduled session, and callers of all
\* the query entry points.
QueryNext == EnrichNext \/ ScheduledNext

QuerySpec == Init /\ [][QueryNext]_vars

QueryOps == {"withGroups", "forMatch", "preGameMatches", "filteredHeaders"}

\* C29: a call of an enrichment entry point leaves the store, the watermark,
\* the scheduled data, the catalog with the enhanced options, the sport
\* mapping and the orchestrator and stream state as they are, and a call
\* repeated on the same state with the same argument returns what the call
\* before it returned.
C29_EnrichmentIsPure ==
    [][lastOp'.op \in QueryOps =>
        /\ UNCHANGED <<svcVars, dsVars, conns, timers, init>>
        /\ enr'.catalog = enr.catalog
        /\ enr'.options = enr.options
        /\ enr'.preGame = enr.preGame
        /\ (LastQuery({lastOp'.op}) /\ enr.q[1].arg = enr'.q[1].arg)
                => enr'.q[1].out = enr.q[1].out]_vars

\* the filtered headers were asked for while the store held a header the
\* filter drops: the store still holds it
C29_Witness ==
    /\ LastQuery({"filteredHeaders"})
    /\ liveData # None
    /\ enr.q[1].out.value # <<>>
    /\ Len(enr.q[1].out.value) < Len(liveData[1].headers)

\* the headers of `headers` that carry the sport code `code`, in their order
RECURSIVE OfSportInOrder(_, _)
OfSportInOrder(headers, code) ==
    IF headers = <<>> THEN <<>>
    ELSE (IF "s" \in DOMAIN Head(headers) /\ Head(headers).s = code
          THEN <<Head(headers)>> ELSE <<>>)
         \o OfSportInOrder(Tail(headers), code)

\* C30: the filtered headers are the headers now in the store whose sport
\* code is the code mapped for the initialized sport, in store order; the
\* empty list when the orchestrator is not initialized, when there is no
\* store, or when no code is mapped for the sport.
C30_FilteredHeaders ==
    LastQuery({"filteredHeaders"}) =>
        /\ ~enr.q[1].out.threw
        /\ enr.q[1].out.value =
              IF initializedData = None \/ liveData = None \/ sportTypeCode = None
              THEN <<>>
              ELSE OfSportInOrder(liveData[1].headers, sportTypeCode[1])

\* patches added a header of another sport and one of the selected sport:
\* the list has the two headers of the selected sport, in store order
C30_Witness ==
    /\ LastQuery({"filteredHeaders"})
    /\ liveData # None
    /\ \E i \in 1..Len(liveData[1].headers) :
            liveData[1].headers[i] = [id |-> 3, s |-> "T", mc |-> 3]
    /\ Len(enr.q[1].out.value) = 2
    /\ enr.q[1].out.value[1].id = 1
    /\ enr.q[1].out.value[2] = [id |-> 2, s |-> "S"]

\* ---------------------------------------------------------- patch frame
\* `old` -> `new` by `patch`: the stored records keep their places, those
\* whose id the patch does not name are as they were, and behind them comes
\* one record for each id the store did not know, in the order the patch
\* first names them, equal to the patch record when the patch names the id
\* once.
OnlyNamedChanged(old, new, patch) ==
    LET known == {old[i].id : i \in 1..Len(old)}
        fresh == {patch[k].id : k \in 1..Len(patch)} \ known
        first(id) == CHOOSE k \in 1..Len(patch) :
                        /\ patch[k].id = id
                        /\ \A m \in 1..(k - 1) : patch[m].id # id
    IN  /\ Len(new) = Len(old) + Cardinality(fresh)
        /\ \A i \in 1..Len(old) :
            /\ new[i].id = old[i].id
            /\ (\A k \in 1..Len(patch) : patch[k].id # old[i].id) => new[i] = old[i]
        /\ \A k \in 1..Len(patch) : patch[k].id \in fresh =>
            \E j \in (Len(old) + 1)..Len(new) :
                /\ new[j].id = patch[k].id
                /\ (\A m \in 1..Len(patch) : m # k => patch[m].id # patch[k].id)
                    => new[j] = patch[k]
        /\ \A j1, j2 \in (Len(old) + 1)..Len(new) :
            j1 < j2 => /\ new[j1].id \in fresh
                       /\ new[j2].id \in fresh
                       /\ first(new[j1].id) < first(new[j2].id)

\* C31  A patch changes only the records it names: a patch record of an id
\* the store does not hold is appended as it is, and every stored record of
\* an id the patch does not name, and the order of the stored records, stay.
C31_PatchFrame ==
    liveData # None =>
        /\ \A p \in PatchesOver(HeaderRecs) :
            OnlyNamedChanged(liveData[1].headers, UpdateLive(liveData[1].headers, p), p)
        /\ \A p \in PatchesOver(BetRecs) :
            OnlyNamedChanged(liveData[1].bets, UpdateLive(liveData[1].bets, p), p)
        /\ \A r \in HeaderRecs : FindIndex(liveData[1].headers, r.id) = 0 =>
            UpdateOne(liveData[1].headers, r) = Append(liveData[1].headers, r)

\* a patch naming the unknown id 2 was applied to a store holding header 1:
\* header 1 is as the snapshot had it and the patch record stands behind it
C31_Witness ==
    /\ lastOp.op = "subData"
    /\ liveData # None
    /\ liveData[1].headers = <<[id |-> 1, s |-> "S", ls |-> "x"], [id |-> 2, s |-> "S"]>>

\* ------------------------------------------------ live quotes, patched
\* One live session with a catalog whose patches insert quotes for a known
\* match: one without an outcome map, one with an empty outcome map, and one
\* replacing an outcome map; and callers of the two live entry points.  An
\* outcome map is listed in the order Object.keys / Object.entries give.
QuoteSubFrames ==
    {[kind |-> "json", liveHeaders |-> None,
      liveBets |-> Some(<<[id |-> 4, mId |-> 1, st |-> "x"]>>)],
     [kind |-> "json", liveHeaders |-> None,
      liveBets |-> Some(<<[id |-> 5, mId |-> 1, om |-> <<>>]>>)],
     [kind |-> "json", liveHeaders |-> Some(<<[id |-> 1, ls |-> "y"]>>),
      liveBets |-> Some(<<[id |-> 1, om |-> <<[key |-> "2", ov |-> 2], [key |-> "9", ov |-> 1]>>]>>)]}

\* The catalogs of the enrichment sessions, and one whose pick "2_S" has a
\* bet code (2) that is not its tip-type code (1).
QuoteCatalogs ==
    EnrichCatalogs
    \cup {Some([betPickGroupMap |-> <<GroupOne, GroupTwo>>,
                betPickMap |-> <<PickOf("1", "S", 1),
                                 [PickOf("2", "S", 2) EXCEPT !.tipTypeCode = 1]>>])}

QuoteNext ==
    \/ InitializeCall(1, FALSE)
    \/ CatalogLoaded(StoreCodes, QuoteCatalogs)
    \/ BulkConnected
    \/ BulkData(EnrichBulkFrames, FALSE)
    \/ BulkEnd
    \/ SubConnected
    \/ SubData(QuoteSubFrames, FALSE)
    \/ EnhancedForMatchWithGroups(MatchIds)
    \/ EnhancedForMatch(MatchIds)

QuoteSpec == Init /\ [][QuoteNext]_vars

\* C32: in each record the group-aware live enrichment returns for a quote of
\* the selected sport, the four group fields are the id, description, name
\* and order number of the group owning the dictionary entry of the quote's
\* first outcome key (null in all four when there is no entry or no owner);
\* for a quote with an empty outcome map all four are null and the outcome
\* list is empty.
C32_GroupOfFirstOutcome ==
    (LastQuery({"withGroups"}) /\ ~enr.q[1].out.threw) =>
        \A i \in 1..Len(enr.q[1].out.value) :
            LET rec == enr.q[1].out.value[i]
                NoGroup == /\ rec.groupId = None
                           /\ rec.groupDescription = None
                           /\ rec.groupName = None
                           /\ rec.groupOrderNumber = None
            IN  IF rec.om = <<>> THEN NoGroup /\ rec.odds = <<>>
                ELSE sportTypeCode = Some(rec.sportCode) =>
                    LET entries == DictEntries(rec.om[1].key, rec.sportCode)
                        tip == enr.catalog[1].betPickMap[CHOOSE e \in entries : TRUE].tipTypeCode
                    IN  IF entries = {} \/ OwnersOf(tip, rec.sportCode) = {} THEN NoGroup
                        ELSE LET group == enr.catalog[1].betPickGroupMap[
                                              FirstOwner(tip, rec.sportCode)]
                             IN  /\ rec.groupId = Some(group.id)
                                 /\ rec.groupDescription = Some(group.description)
                                 /\ rec.groupName = Some(group.name)
                                 /\ rec.groupOrderNumber = Some(group.orderNumber)

\* C33: in each record getEnhancedBettingDataForMatch returns for a quote of
\* the selected sport, every outcome carries the group id that the enhanced
\* options, from which getEnhancedBettingDataForMatchWithGroups reads, give
\* the pick of that outcome: the id of the first group owning the pick by
\* tip-type membership, and null when the dictionary has no such pick.
C33_SameGroupAsGroupAware ==
    (LastQuery({"forMatch"}) /\ ~enr.q[1].out.threw /\ enr.options # None) =>
        \A i \in 1..Len(enr.q[1].out.value) :
            LET rec == enr.q[1].out.value[i]
            IN  sportTypeCode = Some(rec.sportCode) =>
                \A k \in 1..Len(rec.odds) :
                    LET pick == FindPick(enr.options[1].picks,
                                         BetPickKey(rec.odds[k].key, rec.sportCode))
                    IN  rec.odds[k].groupId =
                            IF pick = 0 THEN None ELSE enr.options[1].picks[pick].groupId

\* ------------------------------------------------- scheduled records
\* the raw picks of `match`, by position in the walk, whose grouping key is
\* the one in the id of the enriched record `rec`
MembersOf(match, rec) ==
    LET picks == enr.options[1].picks
    IN  {j \in 1..Len(match.betMap) :
            rec.id = <<ToString(match.id), "_">>
                     \o GroupKey(match.betMap[j], picks,
                                 FindPick(picks, BetPickKey(match.betMap[j].betKey,
                                                            PreGameSportCode)))}

\* the k-th of them
Member(members, k) == CHOOSE j \in members : Cardinality({i \in members : i <= j}) = k

\* C34: in the enriched records of a scheduled match, the pick code, special
\* value, description, caption and group fields of a record are those of the
\* first raw pick of its grouping key, and every raw pick of that key, the
\* first and each later one, is one outcome entry of the record, in the order
\* of the walk.
C34_FirstPickSeeds ==
    LastQuery({"preGameMatches"}) =>
        \A m \in 1..Len(enr.q[1].out.value) :
            LET match == enr.q[1].out.value[m]
                picks == enr.options[1].picks
                PickOfRaw(j) == FindPick(picks, BetPickKey(match.betMap[j].betKey,
                                                           PreGameSportCode))
            IN  \A r \in 1..Len(match.bets) :
                    LET rec == match.bets[r]
                        members == MembersOf(match, rec)
                        first == Member(members, 1)
                        seed == PickOfRaw(first)
                    IN  /\ members # {}
                        /\ rec.betPickCode = match.betMap[first].bpc
                        /\ rec.specialValue = match.betMap[first].sv
                        /\ rec.description = IF seed = 0 THEN "Unknown Description"
                                             ELSE picks[seed].label
                        /\ rec.caption = IF seed = 0 THEN "N/A" ELSE picks[seed].caption
                        /\ rec.groupId = (IF seed = 0 THEN None ELSE picks[seed].groupId)
                        /\ rec.groupDescription =
                                (IF seed = 0 THEN None ELSE picks[seed].groupDescription)
                        /\ rec.groupName = (IF seed = 0 THEN None ELSE picks[seed].groupName)
                        /\ rec.groupOrderNumber =
                                (IF seed = 0 THEN None ELSE picks[seed].groupOrderNumber)
                        /\ Len(rec.odds) = Cardinality(members)
                        /\ \A k \in 1..Len(rec.odds) :
                            /\ rec.odds[k].key = match.betMap[Member(members, k)].betKey
                            /\ rec.odds[k].odds = match.betMap[Member(members, k)].ov

\* a record of two outcome entries whose second raw pick has another special
\* value and another label than the first, which seeded the record
C34_Witness ==
    /\ LastQuery({"preGameMatches"})
    /\ \E m \in 1..Len(enr.q[1].out.value) :
        LET match == enr.q[1].out.value[m]
        IN  \E r \in 1..Len(match.bets) :
                /\ Len(match.bets[r].odds) = 2
                /\ \E j \in MembersOf(match, match.bets[r]) :
                    /\ match.betMap[j].sv # match.bets[r].specialValue
                    /\ match.betMap[j].bpc = 2
                    /\ match.bets[r].betPickCode = 1
                /\ match.bets[r].odds[2].description # match.bets[r].description

\* C39: in the enriched records of a scheduled match every raw pick of the
\* nested bet map is an outcome entry of exactly one record, once; the
\* records hold as many outcome entries as the bet map has raw picks; and no
\* two records have the same id.
C39_OutcomeConservation ==
    LastQuery({"preGameMatches"}) =>
        \A m \in 1..Len(enr.q[1].out.value) :
            LET match == enr.q[1].out.value[m]
                EntriesOf(j) ==
                    {<<r, o>> \in (1..Len(match.bets)) \X (1..MaxPicks + 1) :
                        /\ o <= Len(match.bets[r].odds)
                        /\ match.bets[r].odds[o].key = match.betMap[j].betKey
                        /\ match.bets[r].odds[o].odds = match.betMap[j].ov}
                total == Cardinality({<<r, o>> \in (1..Len(match.bets)) \X (1..MaxPicks + 1) :
                                        o <= Len(match.bets[r].odds)})
            IN  /\ \A j \in 1..Len(match.betMap) : Cardinality(EntriesOf(j)) = 1
                /\ total = Len(match.betMap)
                /\ \A r1, r2 \in 1..Len(match.bets) :
                    r1 # r2 => match.bets[r1].id # match.bets[r2].id

\* two raw picks of one match in two records, each with its one outcome entry
C39_Witness ==
    /\ LastQuery({"preGameMatches"})
    /\ \E m \in 1..Len(enr.q[1].out.value) :
        LET match == enr.q[1].out.value[m]
        IN  /\ Len(match.betMap) = 2
            /\ Len(match.bets) = 2
            /\ match.bets[1].id # match.bets[2].id
            /\ Len(match.bets[1].odds) = 1
            /\ Len(match.bets[2].odds) = 1

\* ------------------------------------------------------- streaming flag
\* C35: isCurrentlyStreaming() is true whenever a subscription connection is
\* open and being read, also one opened by the reconnect after a stream
\* error, and it is false when stop() has returned.
C35_IsStreamingAccurate ==
    /\ OpenSubConns # {} => isStreaming
    /\ lastOp.op = "stop" => ~isStreaming

\* ------------------------------------------------- reset during initialize
\* One initialize('live') without transport faults, and callers of reset()
\* whose calls during the initialize() are recorded.
RaceNext ==
    \/ InitializeCall(1, FALSE)
    \/ CatalogLoaded(StoreCodes, {None})
    \/ BulkConnected
    \/ BulkData(FeedBulkFrames, FALSE)
    \/ BulkEnd
    \/ SubConnected
    \/ SubData(FeedSubFrames, FALSE)
    \/ SubEnd
    \/ EndTimerFires
    \/ Reset(TRUE)

RaceSpec == Init /\ [][RaceNext]_vars

\* C36: when an initialize() during which reset() was called finishes, the
\* orchestrator is uninitialized (getInitializedData() null,
\* isDataInitialized() false) and no subscription loop is running: no
\* subscription request open or being opened and no reconnect timer pending.
C36_ResetWinsOverInitialize ==
    [][(obs'.reset /\ init.pc # "idle" /\ init'.pc = "idle")
        => /\ initializedData' = None
           /\ ~isInitialized'
           /\ SubConns' = {}
           /\ TimersPending' = 0]_vars

\* C37: on every reachable store, for every match id,
\* getEnhancedBettingDataForMatchWithGroups returns a list and does not throw.
C37_LiveEnrichmentNeverThrows ==
    LastQuery({"withGroups"}) => ~enr.q[1].out.threw

\* --------------------------------------------------- a listener that throws
\* response.data.on('data') of a subscription stream, one line of JSON, when a
\* 'liveUpdate' listener throws: emit() rethrows into processLiveUpdateData
\* before the store update, and the catch block of the frame loop swallows
\* the error and goes on with the next line.
SubDataListenerThrows(frames, log) ==
    \E c \in OpenSubConns, f \in frames :
        /\ f.kind = "json"
        /\ log => Len(obs.sub) < MaxWire
        /\ obs' = IF log
                  THEN [obs EXCEPT !.sub = Append(@, f),
                                   !.seen = EmitView(liveData, f),
                                   !.pub = Emit(@, f)]
                  ELSE obs
        /\ liveData' = Catch(liveData, None)
        /\ lastOp' = Op("subDataThrew", FALSE)
        /\ UNCHANGED <<isStreaming, shouldStream, currentTimestamp, abortController,
                       dsVars, conns, timers, init, calls, faults, stopped, resetDone, enr>>

\* One live session whose frames are recorded, with listeners that return and
\* listeners that throw.
ListenerNext ==
    \/ InitializeCall(1, FALSE)
    \/ CatalogLoaded(LoopCodes, {None})
    \/ BulkConnected
    \/ BulkData(FeedBulkFrames, TRUE)
    \/ BulkEnd
    \/ SubConnected
    \/ SubData(FeedSubFrames, TRUE)
    \/ SubDataListenerThrows(FeedSubFrames, TRUE)

ListenerSpec == Init /\ [][ListenerNext]_vars

\* C38: a frame of the incremental feed that parses is merged into the store,
\* header part and odds part, also when a 'liveUpdate' listener throws while
\* it is notified, and the frames after it are merged too.
C38_StoreUpdatedDespiteListener ==
    [][(lastOp'.op \in {"subData", "subDataThrew"} /\ Len(obs'.sub) > Len(obs.sub)
            /\ liveData # None)
        => LET f == obs'.sub[Len(obs'.sub)]
           IN  f.kind = "json" => liveData' = WholePatch(liveData, f)]_vars

====
